---- MODULE Spec2Model ----
(***************************************************************************)
(* Pipeline execution and incremental-result tracking of the VBM workflow: *)
(* the per-subject ledger (AnalysisInfo), the skip policy, the per-subject *)
(* node loop (vbm_alignment, vbm_segment1), the clean-up of unused output  *)
(* directories, and the Runner / status fetcher that persist               *)
(* experiment.yaml, workflow_info.yaml and the node's pickle.              *)
(*                                                                         *)
(* Conventions.  A path is a sequence of components.  A workflow input     *)
(* file is <<folder, base name>>, a derivative directory is                *)
(* <<node dir, base name>> and a derivative file is                        *)
(* <<node dir, base name, file>>.  Lists of output paths are kept as sets  *)
(* (the code never depends on their order).  A Python str message is a     *)
(* sequence of tokens, '' being <<>>.  An unset timestamp (None) is 0.     *)
(***************************************************************************)
EXTENDS Integers, Sequences, FiniteSets, TLC

(***************************************************************************)
(* Bounds of the model.                                                    *)
(***************************************************************************)
\* Longest workflow input file list of one run.
MaxSubjects == 2
\* Number of executions of the node under one analysis id.
MaxRuns == 2
\* Output files deleted by hand between two runs.
MaxDeletions == 1
\* Updates of experiment.yaml begun by its two writers after it has been opened.
MaxUpdates == 4
\* Getter, setter and grouping calls made on AnalysisInfo objects.
MaxCalls == 2
\* Executions of a node on the same images, where reruns are followed.
MaxReruns == 3

(***************************************************************************)
(* analysis_info.py: the enums.  ERROR and PREVIOUS_ERROR carry the same   *)
(* value, so Python's Enum makes PREVIOUS_ERROR an alias of ERROR: the two *)
(* names denote one member.  A status is modelled by its value.            *)
(***************************************************************************)
UNKNOWN == "unknown"
WAIT == "waiting"
PROCESSING == "processing"
PROCESSED == "success"
ERROR == "failure"
PREVIOUS_ERROR == "failure"
SKIPPED == "skipped"
AnalysisStatus == {UNKNOWN, WAIT, PROCESSING, PROCESSED, ERROR, PREVIOUS_ERROR, SKIPPED}

ALIGNMENT == "alignment"
SEGMENT1 == "segment1"
NodeAnalysisType == {ALIGNMENT, SEGMENT1}

\* None for a timestamp, and the group of a file that filemap.json does not list.
NoTime == 0
NoGroup == <<"None">>

(***************************************************************************)
(* The files of the project.  Two folders hold an image of subject 01      *)
(* under the same file name (a within-factor design), one holds subject    *)
(* 02.                                                                     *)
(***************************************************************************)
ProjectImages == <<(<<"a", "sub-01_T1">>), (<<"a", "sub-02_T1">>), (<<"b", "sub-01_T1">>)>>
PathsAll == {ProjectImages[i] : i \in 1..Len(ProjectImages)}

\* The file vbm_alignment writes for an image: its own file name.
alignment_file_name(name) == name
\* The files SPM's segmentation writes for an image: named after the image.
segment_file_names(name) ==
    CASE name = "sub-01_T1" -> {"c1sub-01_T1", "c2sub-01_T1"}
      [] name = "sub-02_T1" -> {"c1sub-02_T1", "c2sub-02_T1"}
      [] OTHER -> {}

Range(s) == {s[i] : i \in 1..Len(s)}

\* The selections of at most n of the project's images, in the project's order.
ImagePosition(p) == CHOOSE k \in 1..Len(ProjectImages) : ProjectImages[k] = p
ListsUpTo(S, n) ==
    UNION {{l \in [1..k -> S] :
              \A i, j \in 1..k : i < j => ImagePosition(l[i]) < ImagePosition(l[j])}
           : k \in 0..n}

\* pathlib.Path(path).resolve(): drops '.', lets '..' cancel the component before it.
RECURSIVE resolve(_, _)
resolve(path, acc) ==
    IF path = <<>> THEN acc
    ELSE IF Head(path) = "." THEN resolve(Tail(path), acc)
    ELSE IF Head(path) = ".."
         THEN resolve(Tail(path), IF acc = <<>> THEN acc ELSE SubSeq(acc, 1, Len(acc) - 1))
    ELSE resolve(Tail(path), Append(acc, Head(path)))

\* A check_path_format that hands the path back as it was spelled.
check_path_format_as_spelled(path) == path

\* check_path_format on one path (str) ...
check_path_format(path) == resolve(path, <<>>)
\* ... on a list of paths ...
check_path_format_list(path_list) == [i \in 1..Len(path_list) |-> check_path_format(path_list[i])]
\* ... and on the paths of an output path list.
check_path_format_set(path_set) == {check_path_format(p) : p \in path_set}

\* utils.get_file_name_without_extension: the extension is not part of a base name here.
get_file_name_without_extension(file_path) == file_path[Len(file_path)]

\* utils.get_subject_name: 'sub-<label>_...' gives <label>.
get_subject_name(wf_input_path) ==
    LET file_name == wf_input_path[Len(wf_input_path)]
    IN CASE file_name = "sub-01_T1" -> "01"
         [] file_name = "sub-02_T1" -> "02"
         [] OTHER -> "?"

\* utils.get_factors: filemap.json lists every image under its folder (the between-factor).
get_factors(wf_input_path_list) ==
    [p \in Range(wf_input_path_list) |-> <<p[1]>>]

(***************************************************************************)
(* analysis_info.py: UnitAnalysisInfo and AnalysisInfo.                    *)
(***************************************************************************)
UnitAnalysisInfo(wf_input_file_path, group) ==
    [wf_input_file_path |-> wf_input_file_path,
     group |-> group,
     analysis_start_time |-> NoTime,
     analysis_end_time |-> NoTime,
     output_file_path_list |-> {},
     analysis_status |-> WAIT,
     properties |-> <<>>,
     message |-> <<>>]

\* An AnalysisInfo.__init__ that makes a record for every key of group_info as well.
AnalysisInfo_of_group_keys(wf_input_file_path_list, group_info, node_analysis_type) ==
    LET list == check_path_format_list(wf_input_file_path_list)
        cleaned_keys == {check_path_format(k) : k \in DOMAIN group_info}
        cleaned_group_info ==
            [c \in cleaned_keys |->
                group_info[CHOOSE k \in DOMAIN group_info : check_path_format(k) = c]]
    IN [wf_input_file_path_list |-> list,
        unit_analysis_info_dict |->
            [p \in Range(list) \cup cleaned_keys |->
                UnitAnalysisInfo(p, IF p \in cleaned_keys THEN cleaned_group_info[p]
                                    ELSE NoGroup)],
        node_analysis_type |-> node_analysis_type]

\* AnalysisInfo.__init__
AnalysisInfo(wf_input_file_path_list, group_info, node_analysis_type) ==
    LET list == check_path_format_list(wf_input_file_path_list)
        kept == {k \in DOMAIN group_info : check_path_format(k) \in Range(list)}
        cleaned_keys == {check_path_format(k) : k \in kept}
        cleaned_group_info ==
            [c \in cleaned_keys |->
                group_info[CHOOSE k \in kept : check_path_format(k) = c]]
    IN [wf_input_file_path_list |-> list,
        unit_analysis_info_dict |->
            [p \in Range(list) |->
                UnitAnalysisInfo(p, IF p \in cleaned_keys THEN cleaned_group_info[p]
                                    ELSE NoGroup)],
        node_analysis_type |-> node_analysis_type]

get_output_file_paths(info, wf_input_path) ==
    info.unit_analysis_info_dict[check_path_format(wf_input_path)].output_file_path_list

get_message(info, wf_input_path) ==
    info.unit_analysis_info_dict[check_path_format(wf_input_path)].message

get_property(info, wf_input_path, key) ==
    info.unit_analysis_info_dict[check_path_format(wf_input_path)].properties[key]

\* get_analysis_status(wf_input_path): the status of one file.
get_analysis_status_of(info, wf_input_path) ==
    info.unit_analysis_info_dict[check_path_format(wf_input_path)].analysis_status

\* A get_analysis_status() that reports ERROR as soon as one file is in error.
RECURSIVE node_status_any_error(_, _)
node_status_any_error(info, i) ==
    IF i > Len(info.wf_input_file_path_list) THEN PROCESSED
    ELSE IF info.unit_analysis_info_dict[info.wf_input_file_path_list[i]].analysis_status = ERROR
         THEN ERROR
    ELSE node_status_any_error(info, i + 1)

\* The loop of get_analysis_status() over the files from position i on.
RECURSIVE node_status_from(_, _)
node_status_from(info, i) ==
    IF i > Len(info.wf_input_file_path_list) THEN ERROR
    ELSE IF info.unit_analysis_info_dict[info.wf_input_file_path_list[i]].analysis_status /= ERROR
         THEN PROCESSED
    ELSE node_status_from(info, i + 1)

\* get_analysis_status(): the status of the node.
get_analysis_status(info) == node_status_from(info, 1)

\* get_analysis_status_message(): 'error' or 'success' for the node.
get_analysis_status_message(info) ==
    IF get_analysis_status(info) = ERROR THEN "error" ELSE "success"

\* get_analysis_status_message(wf_input_path): the value of the file's status.
get_analysis_status_message_of(info, wf_input_path) ==
    get_analysis_status_of(info, wf_input_path)

set_analysis_start_time(info, wf_input_path, t) ==
    [info EXCEPT !.unit_analysis_info_dict[check_path_format(wf_input_path)].analysis_start_time = t]

set_analysis_end_time(info, wf_input_path, t) ==
    [info EXCEPT !.unit_analysis_info_dict[check_path_format(wf_input_path)].analysis_end_time = t]

set_output_file_paths(info, wf_input_path, output_file_path_list) ==
    [info EXCEPT !.unit_analysis_info_dict[check_path_format(wf_input_path)].output_file_path_list =
                     check_path_format_set(output_file_path_list)]

\* A set_analysis_status that writes the status to every record.
set_analysis_status_every_record(info, wf_input_path, analysis_status) ==
    [info EXCEPT !.unit_analysis_info_dict =
        [p \in DOMAIN @ |-> [@[p] EXCEPT !.analysis_status = analysis_status]]]

set_analysis_status(info, wf_input_path, analysis_status) ==
    [info EXCEPT !.unit_analysis_info_dict[check_path_format(wf_input_path)].analysis_status =
                     analysis_status]

set_property(info, wf_input_path, key, value) ==
    LET p == check_path_format(wf_input_path)
        old == info.unit_analysis_info_dict[p].properties
    IN [info EXCEPT !.unit_analysis_info_dict[p].properties =
            [k \in DOMAIN old \cup {key} |-> IF k = key THEN value ELSE old[k]]]

set_message(info, wf_input_path, message) ==
    [info EXCEPT !.unit_analysis_info_dict[check_path_format(wf_input_path)].message = message]

\* The property-copying loop of create_new_analysis_info, from position i on.
RECURSIVE copy_properties(_, _, _)
copy_properties(src, dst, i) ==
    IF i > Len(src.wf_input_file_path_list) THEN dst
    ELSE LET p == src.wf_input_file_path_list[i]
         IN copy_properties(src,
                [dst EXCEPT !.unit_analysis_info_dict[p].properties =
                                src.unit_analysis_info_dict[p].properties],
                i + 1)

create_new_analysis_info(info, node_analysis_type) ==
    LET group_info == [p \in Range(info.wf_input_file_path_list) |->
                          info.unit_analysis_info_dict[p].group]
    IN copy_properties(info,
                       AnalysisInfo(info.wf_input_file_path_list, group_info, node_analysis_type),
                       1)

get_analysis_start_time(info, wf_input_path) ==
    info.unit_analysis_info_dict[check_path_format(wf_input_path)].analysis_start_time

get_analysis_end_time(info, wf_input_path) ==
    info.unit_analysis_info_dict[check_path_format(wf_input_path)].analysis_end_time

\* self.__unit_analysis_info_dict[wf_input_path] of a getter or setter raises KeyError
\* when the dict has no record under the cleaned path.
KeyError(info, wf_input_path) ==
    check_path_format(wf_input_path) \notin DOMAIN info.unit_analysis_info_dict

\* properties[key] of get_property raises KeyError when the record has no such property.
KeyError_property(info, wf_input_path, key) ==
    key \notin DOMAIN info.unit_analysis_info_dict[check_path_format(wf_input_path)].properties

\* tuple(group) of get_grouped_workflow_input_file_paths raises TypeError at a record
\* whose group is None.
TypeError(info) ==
    \E i \in 1..Len(info.wf_input_file_path_list) :
        info.unit_analysis_info_dict[info.wf_input_file_path_list[i]].group = NoGroup

\* The loop of get_grouped_workflow_input_file_paths over the first n paths of the list:
\* wf_input_path_list_out.
RECURSIVE grouped_upto(_, _)
grouped_upto(info, n) ==
    IF n = 0 THEN <<>>
    ELSE LET out == grouped_upto(info, n - 1)
             wf_input_path == info.wf_input_file_path_list[n]
             group_tuple == info.unit_analysis_info_dict[wf_input_path].group
         IN [k \in DOMAIN out \cup {group_tuple} |->
                IF k \notin DOMAIN out THEN <<wf_input_path>>
                ELSE IF k = group_tuple THEN Append(out[k], wf_input_path)
                ELSE out[k]]

get_grouped_workflow_input_file_paths(info) ==
    grouped_upto(info, Len(info.wf_input_file_path_list))

\* A constructor call that hands back the object it was called from.
new_object_shared(objects, object) ==
    [heap |-> [objects EXCEPT ![1] = object], ref |-> 1]

\* AnalysisInfo(...) constructs a new object: no reference held before refers to it.
new_object(objects, object) ==
    [heap |-> Append(objects, object), ref |-> Len(objects) + 1]

(***************************************************************************)
(* The state.                                                              *)
(***************************************************************************)
VARIABLES
    nodes,          \* the nodes of the workflow graph (RunItem.nodeDict)
    node_kind,      \* the node being executed: its function and its node id
    run,            \* number of runs submitted so far under this analysis id
    pc,             \* "idle" | "submitted" | "loop" | "done": where Runner.run is
    now,            \* the clock read by datetime.now()
    \* --- the request of the current run and what Runner.run reads
    request_list,   \* the images of the request (RunItem)
    wf_list,        \* the workflow input files of the node (request / upstream ledger)
    skip_analyzed,  \* params['skip_analyzed']
    alignment_params,   \* alignment parameters of each workflow input file
    input_pickle,   \* the upstream node's pickle read by read_input_info
    \* --- locals of the node function
    analysis_info_out,
    idx,            \* position of the subject loop in wf_list
    previous_node_analysis_info,
    unused_output_dir_path_list,
    \* --- the disk
    dirs,           \* existing derivative sub-directories
    files,          \* existing files (workflow inputs and derivative files)
    workflow_info,  \* workflow_info.yaml (an absent file reads as the empty dict)
    expt_config,    \* experiment.yaml
    pickle,         \* the output pickle of the node being executed
    fetched,        \* the nodes whose pickle of this run the status fetcher has read
    \* --- history of the current node execution (not program state)
    invoked,        \* subjects the node function was invoked for
    fate,           \* how each evaluated subject ended
    confirmed,      \* directories removed from the unused list by the loop
    listed,         \* directories found under the node's directory before the loop
    outcome,        \* "none" | "returned" | "node_failed" | "input_error" | "record_failed"
    missing_at_start,   \* recorded output files missing when the node function was entered
    deletions,      \* output files deleted by hand since the run was submitted
    \* --- the two writers of experiment.yaml, step by step
    executor_op,    \* the update Runner has read experiment.yaml for, not yet written
    executor_copy,  \* the ExptConfig Runner has read
    fetcher_op,     \* the update the status fetcher has read experiment.yaml for
    fetcher_copy,   \* the ExptConfig the status fetcher has read
    updates,        \* number of updates of experiment.yaml begun since it was opened
    \* --- history of the updates of experiment.yaml (not program state)
    recorded,       \* the outcome last recorded for each node by update_experiment_file
    serial_config,  \* experiment.yaml had each update been applied whole when written
    fetcher_writes, \* number of writes of the status fetcher
    \* --- AnalysisInfo objects used on their own
    heap,           \* the AnalysisInfo objects constructed so far, by reference
    derived_ref,    \* the object create_new_analysis_info returned (0: not called)
    info_args,      \* the arguments AnalysisInfo was constructed with
    info_call,      \* the last call on an AnalysisInfo: arguments, result, exception
    info_calls,     \* number of calls made on the objects
    \* --- history across the executions of a node (not program state)
    skipped_before  \* subjects SKIPPED in the execution before this one, if it was recorded

vars == <<nodes, node_kind, run, pc, now, request_list, wf_list, skip_analyzed,
          alignment_params, input_pickle,
          analysis_info_out, idx, previous_node_analysis_info, unused_output_dir_path_list,
          dirs, files, workflow_info, expt_config, pickle, fetched,
          invoked, fate, confirmed, listed, outcome, missing_at_start,
          deletions,
          executor_op, executor_copy, fetcher_op, fetcher_copy, updates,
          recorded, serial_config, fetcher_writes,
          heap, derived_ref, info_args, info_call, info_calls,
          skipped_before>>

request_vars == <<request_list, wf_list, skip_analyzed, alignment_params, input_pickle>>
local_vars == <<analysis_info_out, idx, previous_node_analysis_info, unused_output_dir_path_list>>
history_vars == <<invoked, fate, confirmed, listed, outcome>>
\* What only the step-by-step specifications of single units change.
manifest_vars == <<executor_op, executor_copy, fetcher_op, fetcher_copy, updates,
                   recorded, serial_config, fetcher_writes>>
ledger_vars == <<heap, derived_ref, info_args, info_call, info_calls>>
rerun_vars == <<skipped_before>>
unit_vars == <<manifest_vars, ledger_vars, rerun_vars>>

(***************************************************************************)
(* The disk.                                                               *)
(***************************************************************************)
\* os.path.isfile
isfile(path) == path \in files
\* os.path.isdir
isdir(path) == path \in dirs
\* os.listdir of a derivative sub-directory
listdir(dir_path) == {f \in files : Len(f) = Len(dir_path) + 1
                                     /\ SubSeq(f, 1, Len(dir_path)) = dir_path}
\* utils.join_filepath
join_filepath(path_list) == path_list

\* utils.get_derivatives_dir_path(project_path, analysis_id, node_name)
get_derivatives_dir_path(node_name) == <<node_name>>

\* A get_subdir_path_list that walks the whole derivatives tree instead of listing
\* dir_path.
get_subdir_path_list_walk(dir_path) == dirs

\* utils.get_subdir_path_list
get_subdir_path_list(dir_path) ==
    {d \in dirs : Len(d) = Len(dir_path) + 1 /\ SubSeq(d, 1, Len(dir_path)) = dir_path}

\* utils.check_derivatives_existence(...)['exist'] for one node directory
check_derivatives_existence(node_derivatives_dir_path, subdir_path) ==
    LET dir_path == Append(node_derivatives_dir_path, subdir_path)
    IN IF isdir(dir_path) THEN listdir(dir_path) /= {} ELSE FALSE

\* shutil.rmtree of a set of directories: what is left of dirs and of files
dirs_after_rmtree(dir_path_set) == dirs \ dir_path_set
files_after_rmtree(dir_path_set) ==
    {f \in files : ~(\E d \in dir_path_set : Len(f) > Len(d) /\ SubSeq(f, 1, Len(d)) = d)}

\* A remove_from_unused_list that leaves the list as it is.
keep_unused_list(output_subdir_path, unused) == unused

\* utils.remove_from_unused_list
remove_from_unused_list(output_subdir_path, unused) ==
    IF output_subdir_path \in unused THEN unused \ {output_subdir_path} ELSE unused

(***************************************************************************)
(* utils.py: the skip policy.                                              *)
(***************************************************************************)
DEFAULT_ALIGNMENT_PARAMS == <<0, 0, 0, 0, 0, 0, 1, 1, 1>>
MOVED_ALIGNMENT_PARAMS == <<1, 0, 0, 0, 0, 0, 1, 1, 1>>

\* An output check that is content with one recorded output file being there.
any_output_file_exists(output_file_paths) ==
    output_file_paths = {} \/ \E f \in output_file_paths : isfile(f)

\* The loop over the recorded output file paths: FALSE as soon as one is no file.
RECURSIVE all_output_files_exist(_)
all_output_files_exist(output_file_paths) ==
    IF output_file_paths = {} THEN TRUE
    ELSE LET output_file_path == CHOOSE f \in output_file_paths : TRUE
         IN IF ~isfile(output_file_path) THEN FALSE
            ELSE all_output_files_exist(output_file_paths \ {output_file_path})

\* A skip check that does not look at the recorded success.
skip_node_analysis_any_entry(wf_input_path, skip, previous) ==
    IF ~skip THEN FALSE
    ELSE IF wf_input_path \in DOMAIN previous
         THEN all_output_files_exist(previous[wf_input_path].output_file_paths)
    ELSE FALSE

skip_node_analysis(wf_input_path, skip, previous) ==
    IF ~skip THEN FALSE
    ELSE IF wf_input_path \in DOMAIN previous
         THEN IF previous[wf_input_path].success /= "success" THEN FALSE
              ELSE all_output_files_exist(previous[wf_input_path].output_file_paths)
    ELSE FALSE

skip_alignment(wf_input_path, skip, previous, params) ==
    IF ~skip_node_analysis(wf_input_path, skip, previous) THEN FALSE
    ELSE IF ~(\A i \in 1..Len(DEFAULT_ALIGNMENT_PARAMS) : params[i] = DEFAULT_ALIGNMENT_PARAMS[i])
         THEN FALSE
    ELSE TRUE

\* utils.get_previous_node_analysis_info
get_previous_node_analysis_info(node_id) ==
    IF "node_analysis" \in DOMAIN workflow_info
       /\ node_id \in DOMAIN workflow_info["node_analysis"]
    THEN workflow_info["node_analysis"][node_id]
    ELSE <<>>

(***************************************************************************)
(* Failures.  traceback.format_exc() of an exception keeps its text.       *)
(***************************************************************************)
format_exc(exception) == <<"Traceback">> \o exception
PreviousNodeError(upstream_message) ==
    <<"VbmException", "Error occurred in the previous node analysis">> \o upstream_message
InputDataNotFound == <<"VbmException", "Input data not found">>
InputFileNotFound == <<"VbmException", "Workflow input file is not found">>
NodeFunctionFailure == <<"Exception", "raised by the node function">>
AllProcessingsFailed == <<"VbmException", "All the processings were failed">>
InputInfoFailure == <<"AttributeError", "'list' object has no attribute 'items'">>
RecordingFailure == <<"OSError", "raised while the outcome was recorded">>
NoneMessage == <<"None">>

(***************************************************************************)
(* experiment.yaml: ExptConfig and ExptFunction.                           *)
(***************************************************************************)
node_id == node_kind
NodeIds == nodes

ExptFunction(unique_id, name, success, hasNWB, message, outputPaths, started_at, finished_at, subjects) ==
    [unique_id |-> unique_id, name |-> name, success |-> success, hasNWB |-> hasNWB,
     message |-> message, outputPaths |-> outputPaths, started_at |-> started_at,
     finished_at |-> finished_at, subjects |-> subjects]

\* RunItem.nodeDict of the request: the graph's nodes under the keys of the editor,
\* each with its id and its data (label, type).  The graph has the image input node
\* and the analysis nodes that are run.
INPUT_NODE == "input_0"
nodeDict ==
    [k \in {<<"key", n>> : n \in NodeIds \cup {INPUT_NODE}} |->
        [id |-> k[2],
         data |-> [label |-> k[2],
                   type |-> IF k[2] = INPUT_NODE THEN "input" ELSE "algorithm"]]]

\* A function_from_nodeDict without the branch for the input nodes.
function_from_nodeDict_all_running ==
    [id \in {nodeDict[k].id : k \in DOMAIN nodeDict} |->
        LET node == nodeDict[CHOOSE k \in DOMAIN nodeDict : nodeDict[k].id = id]
        IN ExptFunction(node.id, node.data.label, "running", FALSE, NoneMessage, <<>>,
                        NoTime, NoTime, <<>>)]

\* ExptConfigWriter.function_from_nodeDict: one ExptFunction per node of the graph,
\* keyed by the node's id: running, or for an input node a success that started and
\* finished at the time of the call.
function_from_nodeDict ==
    [id \in {nodeDict[k].id : k \in DOMAIN nodeDict} |->
        LET node == nodeDict[CHOOSE k \in DOMAIN nodeDict : nodeDict[k].id = id]
        IN IF node.data.type = "input"
           THEN ExptFunction(node.id, node.data.label, "success", FALSE, NoneMessage, <<>>,
                             now, now, <<>>)
           ELSE ExptFunction(node.id, node.data.label, "running", FALSE, NoneMessage, <<>>,
                             NoTime, NoTime, <<>>)]

\* ExptConfigWriter.write: create_config or (for an existing file) add_run_info, then
\* function_from_nodeDict.  No file is the record with exists = FALSE.
NoExptConfig ==
    [exists |-> FALSE, project_id |-> "", unique_id |-> "", name |-> "",
     started_at |-> NoTime, finished_at |-> NoTime, success |-> "", hasNWB |-> FALSE,
     function |-> <<>>]

\* ExptConfigBuilder.set_config: the builder takes every field of the manifest read
\* from storage, finished_at included.
ExptConfigBuilder_set_config(config) ==
    [exists |-> TRUE, project_id |-> config.project_id, unique_id |-> config.unique_id,
     name |-> config.name, started_at |-> config.started_at,
     finished_at |-> config.finished_at, success |-> config.success,
     hasNWB |-> config.hasNWB, function |-> config.function]

\* ExptConfigWriter.create_config: the manifest of a new run; the builder has no
\* function yet.
create_config(name) ==
    [exists |-> TRUE, project_id |-> "project", unique_id |-> "uid", name |-> name,
     started_at |-> now, finished_at |-> NoTime, success |-> "running",
     hasNWB |-> FALSE, function |-> <<>>]

\* ExptConfigWriter.add_run_info
add_run_info(config) == [config EXCEPT !.started_at = now, !.success = "running"]

ExptConfigWriter_write(old, name) ==
    LET config == IF old.exists
                  THEN add_run_info(ExptConfigBuilder_set_config(old))
                  ELSE create_config(name)
    IN [config EXCEPT !.function = function_from_nodeDict]

(***************************************************************************)
(* Submission of a run (routers/run.py): the caller's request, the         *)
(* upstream node's result and the state of the inputs on disk are the      *)
(* inputs of the node; ExptConfigWriter.write opens experiment.yaml.  A    *)
(* rerun starts without the node's pickle of the previous run.             *)
(***************************************************************************)
names_of(path_set) == {get_file_name_without_extension(p) : p \in path_set}

\* The position loop of vbm_alignment setting the 'subject_name' property.
RECURSIVE set_subject_names(_, _)
set_subject_names(info, i) ==
    IF i > Len(info.wf_input_file_path_list) THEN info
    ELSE set_subject_names(
            set_property(info, info.wf_input_file_path_list[i], "subject_name",
                         get_subject_name(info.wf_input_file_path_list[i])),
            i + 1)

\* The ledger an alignment node returned for wf_input_path_list, the files of failed
\* being in error (as left by an upstream failure), the others processed.
upstream_analysis_info(wf_input_path_list, failed) ==
    LET fresh == set_subject_names(
                    AnalysisInfo(wf_input_path_list, get_factors(wf_input_path_list), ALIGNMENT), 1)
    IN [fresh EXCEPT !.unit_analysis_info_dict =
          [p \in DOMAIN @ |->
             IF p \in failed
             THEN [@[p] EXCEPT !.analysis_status = ERROR,
                               !.message = format_exc(NodeFunctionFailure),
                               !.analysis_end_time = 1]
             ELSE [@[p] EXCEPT !.analysis_status = PROCESSED,
                               !.output_file_path_list =
                                   {<<ALIGNMENT, get_file_name_without_extension(p),
                                      alignment_file_name(get_file_name_without_extension(p))>>},
                               !.analysis_start_time = 1,
                               !.analysis_end_time = 1]]]

ErrorPickle(exception) == [kind |-> "error", info |-> exception]
ResultPickle(info) == [kind |-> "dict", analysis_info_out |-> info]
NoPickle == [kind |-> "none"]

\* A run is submitted for a new analysis, or again once the result of the run before
\* has been fetched.
Resubmittable == pc = "idle" \/ (pc = "done" /\ fetched = nodes)

\* Whether the whole workflow (alignment, then segment1) is executed.
IsPipeline == nodes = {ALIGNMENT, SEGMENT1}

\* An alignment run: the images of the request, their alignment parameters, and which
\* of the images are on disk.
SubmitAlignment ==
    /\ ALIGNMENT \in nodes
    /\ Resubmittable
    /\ run < MaxRuns
    /\ \E list \in ListsUpTo(PathsAll, MaxSubjects), skip \in BOOLEAN,
          moved \in SUBSET PathsAll, broken \in BOOLEAN :
          /\ moved \subseteq Range(list)
          /\ broken => (list = <<>> /\ ~skip)
          \* the whole workflow is run again on the same images
          /\ (IsPipeline /\ run > 0) =>
                (list = request_list /\ moved = {p \in Range(list) :
                                          alignment_params[p] = MOVED_ALIGNMENT_PARAMS})
          /\ request_list' = list
          /\ wf_list' = list
          /\ skip_analyzed' = skip
          /\ alignment_params' = [p \in Range(list) |->
                                    IF p \in moved THEN MOVED_ALIGNMENT_PARAMS
                                    ELSE DEFAULT_ALIGNMENT_PARAMS]
          /\ input_pickle' = IF broken THEN ErrorPickle(NodeFunctionFailure)
                             ELSE [kind |-> "dict"]
    /\ run' = run + 1
    /\ pc' = "submitted"
    /\ now' = now + 1
    /\ expt_config' = ExptConfigWriter_write(expt_config, "name")
    /\ pickle' = NoPickle
    /\ fetched' = {}
    /\ deletions' = 0
    /\ node_kind' = ALIGNMENT
    /\ invoked' = {} /\ fate' = <<>> /\ confirmed' = {} /\ listed' = {} /\ outcome' = "none"
    /\ missing_at_start' = {}
    /\ UNCHANGED <<nodes, dirs, files, workflow_info, local_vars>>
    /\ UNCHANGED unit_vars

\* A segment1 run: the ledger returned by the alignment node (or its failure), and
\* which alignment derivatives are on disk.
SubmitSegment1 ==
    /\ nodes = {SEGMENT1}
    /\ Resubmittable
    /\ run < MaxRuns
    /\ \E list \in ListsUpTo(PathsAll, MaxSubjects), skip \in BOOLEAN,
          failed \in SUBSET PathsAll, broken \in BOOLEAN :
          /\ failed \subseteq Range(list)
          /\ broken => (list = <<>> /\ ~skip)
          /\ request_list' = list
          /\ wf_list' = list
          /\ skip_analyzed' = skip
          /\ alignment_params' = <<>>
          /\ input_pickle' = IF broken THEN ErrorPickle(AllProcessingsFailed)
                             ELSE ResultPickle(upstream_analysis_info(list, failed))
    /\ run' = run + 1
    /\ pc' = "submitted"
    /\ now' = now + 1
    /\ expt_config' = ExptConfigWriter_write(expt_config, "name")
    /\ pickle' = NoPickle
    /\ fetched' = {}
    /\ deletions' = 0
    /\ invoked' = {} /\ fate' = <<>> /\ confirmed' = {} /\ listed' = {} /\ outcome' = "none"
    /\ missing_at_start' = {}
    /\ UNCHANGED <<nodes, node_kind, dirs, files, workflow_info, local_vars>>
    /\ UNCHANGED unit_vars

(***************************************************************************)
(* Runner.run, first part: read_input_info, set_func_start_timestamp and   *)
(* the node function up to its subject loop.                               *)
(***************************************************************************)
\* Runner.set_func_start_timestamp
set_func_start_timestamp(config, id) == [config EXCEPT !.function[id].started_at = now]

\* utils.save_wf_input_file_id_list (an image id stands for its path)
save_wf_input_file_id_list(info, image_file_id_list) ==
    [k \in DOMAIN info \cup {"wf_input_file_id_list"} |->
        IF k = "wf_input_file_id_list" THEN image_file_id_list ELSE info[k]]

\* read_input_info raises on the pickle of a failed upstream node (a list has no
\* items()); Runner.run writes the failure as this node's pickle.
RunnerInputError ==
    /\ pc = "submitted"
    /\ input_pickle.kind = "error"
    /\ pickle' = ErrorPickle(InputInfoFailure)
    /\ outcome' = "input_error"
    /\ pc' = "done"
    /\ UNCHANGED <<nodes, missing_at_start, node_kind, deletions, run, now, request_vars,
                   local_vars, dirs, files, workflow_info, expt_config, fetched, invoked,
                   fate, confirmed, listed>>
    /\ UNCHANGED unit_vars

\* The output files a resume index records that are no file on disk.
missing_recorded_files(previous) ==
    {f \in UNION {previous[p].output_file_paths : p \in DOMAIN previous} : ~isfile(f)}

\* vbm_alignment up to process_vbm_alignment.
BeginAlignment ==
    /\ pc = "submitted"
    /\ node_kind = ALIGNMENT
    /\ input_pickle.kind = "dict"
    /\ expt_config' = set_func_start_timestamp(expt_config, node_id)
    /\ now' = now + 1
    /\ workflow_info' = save_wf_input_file_id_list(workflow_info, wf_list)
    /\ analysis_info_out' =
          set_subject_names(AnalysisInfo(wf_list, get_factors(wf_list), ALIGNMENT), 1)
    /\ previous_node_analysis_info' = get_previous_node_analysis_info(node_id)
    /\ unused_output_dir_path_list' = get_subdir_path_list(get_derivatives_dir_path(ALIGNMENT))
    /\ listed' = get_subdir_path_list(get_derivatives_dir_path(ALIGNMENT))
    /\ idx' = 1
    /\ pc' = "loop"
    /\ missing_at_start' = missing_recorded_files(get_previous_node_analysis_info(node_id))
    /\ UNCHANGED <<nodes, node_kind, deletions, run, request_vars, dirs, files, pickle,
                   fetched, invoked, fate, confirmed, outcome>>
    /\ UNCHANGED unit_vars

\* vbm_segment1 up to the subject loop of process_vbm_segment1.
analysis_info_in == input_pickle.analysis_info_out

BeginSegment1 ==
    /\ pc = "submitted"
    /\ node_kind = SEGMENT1
    /\ input_pickle.kind = "dict"
    /\ analysis_info_in.node_analysis_type = ALIGNMENT
    /\ expt_config' = set_func_start_timestamp(expt_config, node_id)
    /\ now' = now + 1
    /\ previous_node_analysis_info' = get_previous_node_analysis_info(node_id)
    /\ unused_output_dir_path_list' = get_subdir_path_list(get_derivatives_dir_path(SEGMENT1))
    /\ listed' = get_subdir_path_list(get_derivatives_dir_path(SEGMENT1))
    /\ analysis_info_out' = create_new_analysis_info(analysis_info_in, SEGMENT1)
    /\ idx' = 1
    /\ pc' = "loop"
    /\ missing_at_start' = missing_recorded_files(get_previous_node_analysis_info(node_id))
    /\ UNCHANGED <<nodes, node_kind, deletions, run, request_vars, dirs, files,
                   workflow_info, pickle, fetched, invoked, fate, confirmed, outcome>>
    /\ UNCHANGED unit_vars

(***************************************************************************)
(* One iteration of the subject loop (process_vbm_alignment,               *)
(* process_vbm_segment1): try / except / finally for one workflow input    *)
(* file.                                                                   *)
(***************************************************************************)
wf_input_path == wf_list[idx]
wf_input_name == get_file_name_without_extension(wf_input_path)
node_dir_path == get_derivatives_dir_path(node_kind)
output_dir_path == join_filepath(Append(node_dir_path, wf_input_name))

InLoop == pc = "loop" /\ idx <= Len(wf_list)

\* Whether the skip check of the node says skip for the current file.
skip_decision ==
    IF node_kind = ALIGNMENT
    THEN skip_alignment(wf_input_path, skip_analyzed, previous_node_analysis_info,
                        alignment_params[wf_input_path])
    ELSE skip_node_analysis(wf_input_path, skip_analyzed, previous_node_analysis_info)

\* A skip branch that carries forward what the resume index records for the file.
recorded_output_paths ==
    IF node_kind = ALIGNMENT THEN {wf_input_path}
    ELSE previous_node_analysis_info[wf_input_path].output_file_paths

\* What the skip branch carries forward as the file's output paths.
carried_output_paths ==
    IF node_kind = ALIGNMENT THEN {wf_input_path}
    ELSE get_output_file_paths(analysis_info_in, wf_input_path)

\* Whether the upstream record is an error (segment1 only).
previous_error ==
    /\ node_kind = SEGMENT1
    /\ \/ get_analysis_status_of(analysis_info_in, wf_input_path) = ERROR
       \/ get_analysis_status_of(analysis_info_in, wf_input_path) = PREVIOUS_ERROR

\* Whether the input of the current file is there.
input_exists ==
    IF node_kind = ALIGNMENT THEN isfile(wf_input_path)
    ELSE check_derivatives_existence(get_derivatives_dir_path(ALIGNMENT), wf_input_name)

\* 'Delete the old output data if they exist' (segment1 only).
old_output_deleted ==
    node_kind = SEGMENT1 /\ check_derivatives_existence(node_dir_path, wf_input_name)

\* A subject loop without the try statement: a failure of a subject ends the loop.
EndOfIteration_stopping(info, how) ==
    /\ analysis_info_out' = set_analysis_end_time(info, wf_input_path, now)
    /\ fate' = [p \in DOMAIN fate \cup {wf_input_path} |->
                  IF p = wf_input_path THEN how ELSE fate[p]]
    /\ idx' = IF how \in {"raised", "input_missing", "previous_error"}
              THEN Len(wf_list) + 1 ELSE idx + 1
    /\ UNCHANGED <<nodes, missing_at_start, node_kind, deletions, run, pc, now, request_vars,
                   previous_node_analysis_info, workflow_info, expt_config, pickle, fetched,
                   listed, outcome>>
    /\ UNCHANGED unit_vars

\* A subject loop that marks the end time as the last statement of the try block: the
\* statement is not reached when the node function raises.
EndOfIteration_end_in_try(info, how) ==
    /\ analysis_info_out' = IF how = "raised" THEN info
                            ELSE set_analysis_end_time(info, wf_input_path, now)
    /\ fate' = [p \in DOMAIN fate \cup {wf_input_path} |->
                  IF p = wf_input_path THEN how ELSE fate[p]]
    /\ idx' = idx + 1
    /\ UNCHANGED <<nodes, missing_at_start, node_kind, deletions, run, pc, now, request_vars,
                   previous_node_analysis_info, workflow_info, expt_config, pickle, fetched,
                   listed, outcome>>
    /\ UNCHANGED unit_vars

\* The finally clause, and the bookkeeping of the step.
EndOfIteration(info, how) ==
    /\ analysis_info_out' = set_analysis_end_time(info, wf_input_path, now)
    /\ fate' = [p \in DOMAIN fate \cup {wf_input_path} |->
                  IF p = wf_input_path THEN how ELSE fate[p]]
    /\ idx' = idx + 1
    /\ UNCHANGED <<nodes, missing_at_start, node_kind, deletions, run, pc, now, request_vars,
                   previous_node_analysis_info, workflow_info, expt_config, pickle, fetched,
                   listed, outcome>>
    /\ UNCHANGED unit_vars

\* The skip branch: 'continue' inside try, so the finally clause still runs.
SubjectSkipped ==
    /\ InLoop
    /\ skip_decision
    /\ unused_output_dir_path_list' =
          remove_from_unused_list(output_dir_path, unused_output_dir_path_list)
    /\ confirmed' = confirmed \cup {output_dir_path}
    /\ EndOfIteration(
          set_analysis_status(
              set_output_file_paths(analysis_info_out, wf_input_path, carried_output_paths),
              wf_input_path, SKIPPED),
          "skipped")
    /\ UNCHANGED <<dirs, files, invoked>>

\* The upstream record is an error: PREVIOUS_ERROR is set, the exception is caught.
SubjectPreviousError ==
    /\ InLoop
    /\ ~skip_decision
    /\ previous_error
    /\ EndOfIteration(
          set_message(
              set_analysis_status(analysis_info_out, wf_input_path, PREVIOUS_ERROR),
              wf_input_path,
              format_exc(PreviousNodeError(get_message(analysis_info_in, wf_input_path)))),
          "previous_error")
    /\ UNCHANGED <<dirs, files, unused_output_dir_path_list, invoked, confirmed>>

\* The input is missing: the exception is caught, only the message is set.
SubjectInputMissing ==
    /\ InLoop
    /\ ~skip_decision
    /\ ~previous_error
    /\ ~input_exists
    /\ EndOfIteration(
          set_message(analysis_info_out, wf_input_path,
                      format_exc(IF node_kind = ALIGNMENT THEN InputFileNotFound
                                 ELSE InputDataNotFound)),
          "input_missing")
    /\ UNCHANGED <<dirs, files, unused_output_dir_path_list, invoked, confirmed>>

\* The disk when the node function is entered: old output deleted, directory created.
dirs_at_call == dirs \cup {output_dir_path}
files_at_call == IF old_output_deleted THEN files_after_rmtree({output_dir_path}) ELSE files

\* The files the node function writes for the current file.
written_files ==
    IF node_kind = ALIGNMENT
    THEN {Append(output_dir_path, alignment_file_name(wf_input_name))}
    ELSE {Append(output_dir_path, f) : f \in segment_file_names(wf_input_name)}

\* What the node function returns: set_affine_matrix returns the path it wrote,
\* segment_brain_images the files found in the output directory.
returned_output_paths(files_after) ==
    IF node_kind = ALIGNMENT THEN written_files
    ELSE {f \in files_after : Len(f) = Len(output_dir_path) + 1
                              /\ SubSeq(f, 1, Len(output_dir_path)) = output_dir_path}

\* The node function is invoked and returns.
SubjectProcessed ==
    /\ InLoop
    /\ ~skip_decision
    /\ ~previous_error
    /\ input_exists
    /\ dirs' = dirs_at_call
    /\ files' = files_at_call \cup written_files
    /\ invoked' = invoked \cup {wf_input_path}
    /\ unused_output_dir_path_list' =
          remove_from_unused_list(output_dir_path, unused_output_dir_path_list)
    /\ confirmed' = confirmed \cup {output_dir_path}
    /\ EndOfIteration(
          set_analysis_status(
              set_output_file_paths(
                  set_analysis_start_time(analysis_info_out, wf_input_path, now),
                  wf_input_path, returned_output_paths(files_at_call \cup written_files)),
              wf_input_path, PROCESSED),
          "processed")

\* The node function is invoked and raises, having written none or some of its files:
\* the exception is caught, only the message is set.
SubjectRaised ==
    /\ InLoop
    /\ ~skip_decision
    /\ ~previous_error
    /\ input_exists
    /\ \E partial \in SUBSET written_files :
          /\ partial /= written_files
          /\ files' = files_at_call \cup partial
    /\ dirs' = dirs_at_call
    /\ invoked' = invoked \cup {wf_input_path}
    /\ EndOfIteration(
          set_message(set_analysis_start_time(analysis_info_out, wf_input_path, now),
                      wf_input_path, format_exc(NodeFunctionFailure)),
          "raised")
    /\ UNCHANGED <<unused_output_dir_path_list, confirmed>>

(***************************************************************************)
(* After the loop: the node function's end and the rest of Runner.run.     *)
(***************************************************************************)
\* A delete_directories that deletes nothing.
keep_directories(dir_path_list) == dirs

\* utils.delete_directories: shutil.rmtree of each listed directory.
delete_directories_dirs(dir_path_list) == dirs_after_rmtree(dir_path_list)
delete_directories_files(dir_path_list) == files_after_rmtree(dir_path_list)

\* The loop of update_experiment_file over the files up to position i: the
\* SubjectAnalysisInfo of each subject name.
RECURSIVE subject_dict_upto(_, _)
subject_dict_upto(info, i) ==
    IF i = 0 THEN <<>>
    ELSE LET before == subject_dict_upto(info, i - 1)
             p == info.wf_input_file_path_list[i]
             subject == get_property(info, p, "subject_name")
             output_file_paths == get_output_file_paths(info, p)
         IN [s \in DOMAIN before \cup {subject} |->
               IF s /= subject THEN before[s]
               ELSE IF subject \in DOMAIN before
               THEN [success |-> Append(before[s].success,
                                        get_analysis_status_message_of(info, p)),
                     output_path |-> Append(before[s].output_path, output_file_paths),
                     message |-> Append(before[s].message, get_message(info, p))]
               ELSE [success |-> <<get_analysis_status_message_of(info, p)>>,
                     output_path |-> <<output_file_paths>>,
                     message |-> <<get_message(info, p)>>]]

\* The OutputPath of each output file, keyed by the file's name without extension
\* (a later file of the same name replaces an earlier one).
RECURSIVE output_path_dict_upto(_, _)
output_path_dict_upto(info, i) ==
    IF i = 0 THEN <<>>
    ELSE LET before == output_path_dict_upto(info, i - 1)
             paths == get_output_file_paths(info, info.wf_input_file_path_list[i])
             keys == {get_file_name_without_extension(f) : f \in paths}
         IN [k \in DOMAIN before \cup keys |->
               IF k \in keys
               THEN CHOOSE f \in paths : get_file_name_without_extension(f) = k
               ELSE before[k]]

\* An update_experiment_file that writes the outcome of the given node into a function
\* map rebuilt from the graph, as ExptConfigWriter.write does.
update_experiment_file_rebuilt(config, id, info) ==
    [config EXCEPT !.function =
        [n \in DOMAIN config.function |->
            IF n = id
            THEN ExptFunction(config.function[id].unique_id,
                              config.function[id].name,
                              config.success,
                              config.function[id].hasNWB,
                              <<get_analysis_status_message(info)>>,
                              output_path_dict_upto(info, Len(info.wf_input_file_path_list)),
                              config.started_at,
                              config.finished_at,
                              subject_dict_upto(info, Len(info.wf_input_file_path_list)))
            ELSE function_from_nodeDict[n]]]

\* Runner.update_experiment_file
update_experiment_file(config, id, info) ==
    [config EXCEPT !.function[id] =
        ExptFunction(config.function[id].unique_id,
                     config.function[id].name,
                     config.success,
                     config.function[id].hasNWB,
                     <<get_analysis_status_message(info)>>,
                     output_path_dict_upto(info, Len(info.wf_input_file_path_list)),
                     config.started_at,
                     config.finished_at,
                     subject_dict_upto(info, Len(info.wf_input_file_path_list)))]

\* An update_workflow_info_file that adds the subjects of the ledger to the entry the
\* node already has, instead of replacing the entry.
update_workflow_info_file_merged(old, id, info) ==
    LET node_analysis == IF "node_analysis" \in DOMAIN old THEN old["node_analysis"] ELSE <<>>
        before == IF id \in DOMAIN node_analysis THEN node_analysis[id] ELSE <<>>
        node_info == [p \in DOMAIN before \cup Range(info.wf_input_file_path_list) |->
                        IF p \in Range(info.wf_input_file_path_list)
                        THEN [output_file_paths |-> get_output_file_paths(info, p),
                              success |-> get_analysis_status_message_of(info, p),
                              message |-> get_message(info, p)]
                        ELSE before[p]]
        updated == [n \in DOMAIN node_analysis \cup {id} |->
                      IF n = id THEN node_info ELSE node_analysis[n]]
    IN [k \in DOMAIN old \cup {"node_analysis"} |->
          IF k = "node_analysis" THEN updated ELSE old[k]]

\* An update_workflow_info_file that writes a new file holding the node's entry only.
update_workflow_info_file_rewritten(old, id, info) ==
    LET node_info == [p \in Range(info.wf_input_file_path_list) |->
                        [output_file_paths |-> get_output_file_paths(info, p),
                         success |-> get_analysis_status_message_of(info, p),
                         message |-> get_message(info, p)]]
    IN [k \in {"node_analysis"} |-> [n \in {id} |-> node_info]]

\* Runner.update_workflow_info_file
update_workflow_info_file(old, id, info) ==
    LET node_analysis == IF "node_analysis" \in DOMAIN old THEN old["node_analysis"] ELSE <<>>
        node_info == [p \in Range(info.wf_input_file_path_list) |->
                        [output_file_paths |-> get_output_file_paths(info, p),
                         success |-> get_analysis_status_message_of(info, p),
                         message |-> get_message(info, p)]]
        updated == [n \in DOMAIN node_analysis \cup {id} |->
                      IF n = id THEN node_info ELSE node_analysis[n]]
    IN [k \in DOMAIN old \cup {"node_analysis"} |->
          IF k = "node_analysis" THEN updated ELSE old[k]]

\* A Runner.run that records the resume index in a finally clause: the failed node's
\* ledger is recorded too.
NodeFailed_recorded ==
    /\ pc = "loop"
    /\ idx > Len(wf_list)
    /\ get_analysis_status(analysis_info_out) = ERROR
    /\ pickle' = ErrorPickle(AllProcessingsFailed)
    /\ workflow_info' = update_workflow_info_file(workflow_info, node_id, analysis_info_out)
    /\ outcome' = "node_failed"
    /\ pc' = "done"
    /\ UNCHANGED <<nodes, missing_at_start, node_kind, deletions, run, now, request_vars,
                   local_vars, dirs, files, expt_config, fetched, invoked,
                   fate, confirmed, listed>>
    /\ UNCHANGED unit_vars

\* 'Throw an exception if none of the processings were successful': the node raises,
\* Runner.run catches and writes the last lines of the trace as the node's pickle.
NodeFailed ==
    /\ pc = "loop"
    /\ idx > Len(wf_list)
    /\ get_analysis_status(analysis_info_out) = ERROR
    /\ pickle' = ErrorPickle(AllProcessingsFailed)
    /\ outcome' = "node_failed"
    /\ pc' = "done"
    /\ UNCHANGED <<nodes, missing_at_start, node_kind, deletions, run, now, request_vars,
                   local_vars, dirs, files, workflow_info, expt_config, fetched, invoked,
                   fate, confirmed, listed>>
    /\ UNCHANGED unit_vars

\* The node deletes the unused directories and returns its ledger; Runner.run updates
\* experiment.yaml and workflow_info.yaml and writes the node's pickle.
NodeReturned ==
    /\ pc = "loop"
    /\ idx > Len(wf_list)
    /\ get_analysis_status(analysis_info_out) /= ERROR
    /\ dirs' = delete_directories_dirs(unused_output_dir_path_list)
    /\ files' = delete_directories_files(unused_output_dir_path_list)
    /\ expt_config' = update_experiment_file(expt_config, node_id, analysis_info_out)
    /\ workflow_info' = update_workflow_info_file(workflow_info, node_id, analysis_info_out)
    /\ pickle' = ResultPickle(analysis_info_out)
    /\ outcome' = "returned"
    /\ pc' = "done"
    /\ UNCHANGED <<nodes, missing_at_start, node_kind, deletions, run, now, request_vars,
                   local_vars, fetched, invoked, fate, confirmed, listed>>
    /\ UNCHANGED unit_vars

\* The node returns its ledger and a statement of Runner.run after execute_function
\* raises (a file of the run cannot be read or written): update_experiment_file before
\* it has written, update_workflow_info_file before it has written, or save_all_nwb.
\* Runner.run catches and writes the last lines of the trace as the node's pickle.
RecordingStatements == {"update_experiment_file", "update_workflow_info_file", "save_all_nwb"}

RecordingRaised ==
    /\ pc = "loop"
    /\ idx > Len(wf_list)
    /\ get_analysis_status(analysis_info_out) /= ERROR
    /\ dirs' = delete_directories_dirs(unused_output_dir_path_list)
    /\ files' = delete_directories_files(unused_output_dir_path_list)
    /\ \E raising \in RecordingStatements :
          /\ expt_config' =
                IF raising = "update_experiment_file" THEN expt_config
                ELSE update_experiment_file(expt_config, node_id, analysis_info_out)
          /\ workflow_info' =
                IF raising = "save_all_nwb"
                THEN update_workflow_info_file(workflow_info, node_id, analysis_info_out)
                ELSE workflow_info
    /\ pickle' = ErrorPickle(RecordingFailure)
    /\ outcome' = "record_failed"
    /\ pc' = "done"
    /\ UNCHANGED <<nodes, missing_at_start, node_kind, deletions, run, now, request_vars,
                   local_vars, fetched, invoked, fate, confirmed, listed>>
    /\ UNCHANGED unit_vars

(***************************************************************************)
(* The workflow: once the alignment rule has ended (Runner.run has written *)
(* its pickle, a result or a failure), the segment1 rule runs with that    *)
(* pickle as its input.                                                    *)
(***************************************************************************)
ScheduleDownstream ==
    /\ IsPipeline
    /\ node_kind = ALIGNMENT
    /\ pc = "done"
    /\ node_kind' = SEGMENT1
    /\ input_pickle' = pickle
    /\ wf_list' = IF pickle.kind = "dict"
                  THEN pickle.analysis_info_out.wf_input_file_path_list ELSE <<>>
    /\ pickle' = NoPickle
    /\ pc' = "submitted"
    /\ invoked' = {} /\ fate' = <<>> /\ confirmed' = {} /\ listed' = {} /\ outcome' = "none"
    /\ missing_at_start' = {}
    /\ UNCHANGED <<nodes, deletions, run, now, request_list, skip_analyzed, alignment_params,
                   local_vars, dirs, files, workflow_info, expt_config, fetched>>
    /\ UNCHANGED unit_vars

(***************************************************************************)
(* The status fetcher (WorkflowResult.get -> NodeResult.get) on the node's *)
(* pickle.                                                                 *)
(***************************************************************************)
\* NodeResult.outputPaths: a ledger is none of the displayed data classes.
NodeResult_outputPaths == <<>>

\* A NodeResult.get that takes every pickle for a result.
NodeResult_get_any_pickle(config, id, info) ==
    [config EXCEPT !.function[id].success = "success",
                   !.function[id].finished_at = now,
                   !.function[id].message = <<id, "success">>]

NodeResult_get(config, id, info) ==
    LET is_error == info.kind = "error"
        message == IF is_error THEN info.info ELSE <<id, "success">>
        one == [config EXCEPT
                  !.function[id].success = IF is_error THEN "error" ELSE "success",
                  !.function[id].outputPaths =
                      IF is_error THEN @ ELSE NodeResult_outputPaths,
                  !.function[id].finished_at = now,
                  !.function[id].message = message]
        statuses == {one.function[n].success : n \in DOMAIN one.function}
    IN IF "running" \notin statuses
       THEN [one EXCEPT !.finished_at = now,
                        !.success = IF "error" \in statuses THEN "error" ELSE "success"]
       ELSE one

\* The pickle the fetcher finds for a node: the node being executed writes pickle, the
\* alignment node's is what the segment1 node reads.
pickle_of(n) ==
    IF n = node_kind THEN pickle
    ELSE IF n = ALIGNMENT THEN input_pickle
    ELSE NoPickle

\* WorkflowResult.get: the loop over the node ids of the poll, NodeResult.get for each
\* that has a pickle.
RECURSIVE WorkflowResult_get(_, _)
WorkflowResult_get(config, nodeIdList) ==
    IF nodeIdList = <<>> THEN config
    ELSE WorkflowResult_get(
            IF pickle_of(Head(nodeIdList)).kind /= "none"
            THEN NodeResult_get(config, Head(nodeIdList), pickle_of(Head(nodeIdList)))
            ELSE config,
            Tail(nodeIdList))

\* The node ids a poll asks for: the nodes whose result it has not yet got.
pending_nodes == SelectSeq(<<ALIGNMENT, SEGMENT1>>, LAMBDA n : n \in nodes \ fetched)

\* A poll of the fetcher after a node has ended.
FetchResult ==
    /\ pc = "done"
    /\ \E n \in nodes \ fetched : pickle_of(n).kind /= "none"
    /\ expt_config' = WorkflowResult_get(expt_config, pending_nodes)
    /\ fetched' = fetched \cup {n \in nodes : pickle_of(n).kind /= "none"}
    /\ now' = now + 1
    /\ UNCHANGED <<nodes, missing_at_start, node_kind, deletions, run, pc, request_vars,
                   local_vars, dirs, files, workflow_info, pickle, history_vars>>
    /\ UNCHANGED unit_vars

(***************************************************************************)
(* The experiment info a status caller gets                                *)
(* (WorkflowResult.get_experiment_info on the ExptConfig read from         *)
(* experiment.yaml).  The dicts are walked in a fixed order of their keys; *)
(* the outputs of a NodeInfo are kept as the set of the listed paths.      *)
(***************************************************************************)
GET_NIFTI_IMAGE_API_URL == "/outputs/nifti_image"
NodeOrder == <<INPUT_NODE, ALIGNMENT, SEGMENT1>>
SubjectOrder == <<"01", "02", "?">>

\* all(i == 'success' for i in success)
RECURSIVE all_success(_)
all_success(success) ==
    IF success = <<>> THEN TRUE
    ELSE IF Head(success) /= "success" THEN FALSE
    ELSE all_success(Tail(success))

\* A summary that is content with one successful file of the subject.
node_analysis_info_any_success(config, id, subject_name) ==
    LET subject_analysis_info == config.function[id].subjects[subject_name]
    IN [unique_id |-> id,
        name |-> config.function[id].name,
        success |-> IF \E i \in 1..Len(subject_analysis_info.success) :
                          subject_analysis_info.success[i] = "success"
                    THEN "success" ELSE "error",
        message |-> config.function[id].message,
        outputs |-> {<<GET_NIFTI_IMAGE_API_URL>> \o path :
                       path \in UNION Range(subject_analysis_info.output_path)}]

\* NodeInfo(...) of a subject at a node
node_analysis_info(config, id, subject_name) ==
    LET subject_analysis_info == config.function[id].subjects[subject_name]
    IN [unique_id |-> id,
        name |-> config.function[id].name,
        success |-> IF all_success(subject_analysis_info.success) THEN "success" ELSE "error",
        message |-> config.function[id].message,
        outputs |-> {<<GET_NIFTI_IMAGE_API_URL>> \o path :
                       path \in UNION Range(subject_analysis_info.output_path)}]

\* 'Add the NodeInfo data to the SubjectInfo data of results_data': the for ... else.
add_node_info(results_data, subject_name, id, info) ==
    IF \E k \in 1..Len(results_data) : results_data[k].name = subject_name
    THEN LET k == CHOOSE k \in 1..Len(results_data) :
                     /\ results_data[k].name = subject_name
                     /\ \A j \in 1..(k - 1) : results_data[j].name /= subject_name
         IN [results_data EXCEPT ![k].function =
                [n \in DOMAIN @ \cup {id} |-> IF n = id THEN info ELSE @[n]]]
    ELSE Append(results_data, [subject_id |-> subject_name, name |-> subject_name,
                               function |-> [n \in {id} |-> info]])

\* The inner loop over the subjects of a node, from position j of the subject names on.
RECURSIVE results_of_subjects(_, _, _, _)
results_of_subjects(config, id, results_data, j) ==
    IF j > Len(SubjectOrder) THEN results_data
    ELSE results_of_subjects(config, id,
            IF SubjectOrder[j] \in DOMAIN config.function[id].subjects
            THEN add_node_info(results_data, SubjectOrder[j], id,
                               node_analysis_info(config, id, SubjectOrder[j]))
            ELSE results_data,
            j + 1)

\* The outer loop over the nodes, from position i of the node ids on.
RECURSIVE results_of_nodes(_, _, _)
results_of_nodes(config, results_data, i) ==
    IF i > Len(NodeOrder) THEN results_data
    ELSE results_of_nodes(config,
            IF NodeOrder[i] \in DOMAIN config.function
            THEN results_of_subjects(config, NodeOrder[i], results_data, 1)
            ELSE results_data,
            i + 1)

get_experiment_info(config) ==
    [started_at |-> config.started_at,
     finished_at |-> config.finished_at,
     unique_id |-> config.unique_id,
     name |-> config.name,
     status |-> config.success,
     results |-> results_of_nodes(config, <<>>, 1)]

(***************************************************************************)
(* The user's hand on the disk between runs: an output file is deleted.    *)
(***************************************************************************)
DeleteOutputFile ==
    /\ pc = "done"
    /\ IsPipeline => node_kind = SEGMENT1
    /\ run < MaxRuns
    /\ deletions < MaxDeletions
    /\ deletions' = deletions + 1
    /\ \E f \in files :
          /\ Len(f) = 3
          \* a file of a node that is run, or of the node upstream of it
          /\ f[1] \in nodes \/ nodes = {SEGMENT1}
          /\ files' = files \ {f}
    /\ UNCHANGED <<nodes, missing_at_start, node_kind, run, pc, now, request_vars,
                   local_vars, dirs, workflow_info, expt_config, pickle, fetched,
                   history_vars>>
    /\ UNCHANGED unit_vars

\* No update of experiment.yaml in progress.
NoUpdate == [kind |-> "none", id |-> "", info |-> NoPickle]
\* No AnalysisInfo constructed, no call made on one.
NoArgs == [wf_input_file_path_list |-> <<>>, group_info |-> <<>>]
NoCall == [op |-> "none", ref |-> 0, path |-> <<>>, raised |-> "", before |-> <<>>]

(***************************************************************************)
(* The specification: a node (alignment or segment1) executed up to        *)
(* MaxRuns times under one analysis id, from an empty output directory.    *)
(***************************************************************************)
InitOf(graph) ==
    /\ nodes = graph
    /\ node_kind = IF ALIGNMENT \in graph THEN ALIGNMENT ELSE SEGMENT1
    /\ run = 0
    /\ pc = "idle"
    /\ now = 1
    /\ request_list = <<>>
    /\ wf_list = <<>>
    /\ skip_analyzed = FALSE
    /\ alignment_params = <<>>
    /\ input_pickle = NoPickle
    /\ analysis_info_out = AnalysisInfo(<<>>, <<>>, node_kind)
    /\ idx = 1
    /\ previous_node_analysis_info = <<>>
    /\ unused_output_dir_path_list = {}
    /\ \E present \in SUBSET PathsAll :
          /\ IsPipeline => present = PathsAll
          /\ IF node_kind = ALIGNMENT
             THEN dirs = {} /\ files = present
             ELSE /\ dirs = {<<ALIGNMENT, n>> : n \in names_of(present)}
                  /\ files = {<<ALIGNMENT, n, alignment_file_name(n)>> : n \in names_of(present)}
    /\ workflow_info = <<>>
    /\ expt_config = NoExptConfig
    /\ pickle = NoPickle
    /\ fetched = {}
    /\ invoked = {}
    /\ fate = <<>>
    /\ confirmed = {}
    /\ listed = {}
    /\ outcome = "none"
    /\ missing_at_start = {}
    /\ deletions = 0
    /\ executor_op = NoUpdate
    /\ executor_copy = NoExptConfig
    /\ fetcher_op = NoUpdate
    /\ fetcher_copy = NoExptConfig
    /\ updates = 0
    /\ recorded = <<>>
    /\ serial_config = NoExptConfig
    /\ fetcher_writes = 0
    /\ heap = <<>>
    /\ derived_ref = 0
    /\ info_args = NoArgs
    /\ info_call = NoCall
    /\ info_calls = 0
    /\ skipped_before = {}

Init == \E n \in NodeAnalysisType : InitOf({n})

Next ==
    \/ SubmitAlignment
    \/ SubmitSegment1
    \/ RunnerInputError
    \/ BeginAlignment
    \/ BeginSegment1
    \/ SubjectSkipped
    \/ SubjectPreviousError
    \/ SubjectInputMissing
    \/ SubjectProcessed
    \/ SubjectRaised
    \/ NodeFailed
    \/ NodeReturned
    \/ RecordingRaised
    \/ FetchResult
    \/ DeleteOutputFile

Spec == Init /\ [][Next]_vars

\* One evaluation of a subject, and the end of the node function after the loop.
EvaluateSubject ==
    \/ SubjectSkipped
    \/ SubjectPreviousError
    \/ SubjectInputMissing
    \/ SubjectProcessed
    \/ SubjectRaised
EndOfNodeFunction == NodeFailed \/ NodeReturned \/ RecordingRaised

\* The node under the assumption that the process executing it keeps running and that
\* every call of the node function terminates: an evaluation that can be made is made,
\* and so is the return (or the raise) that follows the loop.
SpecTermination ==
    /\ Init
    /\ [][Next]_vars
    /\ WF_vars(EvaluateSubject)
    /\ WF_vars(EndOfNodeFunction)

(***************************************************************************)
(* Reruns: one node executed up to MaxReruns times on the same images with *)
(* the same (default) parameters, every upstream result a success, nothing *)
(* deleted by hand between the runs.                                       *)
(***************************************************************************)
SubmitRerun ==
    /\ Resubmittable
    /\ run < MaxReruns
    /\ \E list \in ListsUpTo(PathsAll, MaxSubjects), skip \in BOOLEAN :
          /\ run > 0 => list = request_list
          /\ request_list' = list
          /\ wf_list' = list
          /\ skip_analyzed' = skip
          /\ alignment_params' = IF node_kind = ALIGNMENT
                                 THEN [p \in Range(list) |-> DEFAULT_ALIGNMENT_PARAMS]
                                 ELSE <<>>
          /\ input_pickle' = IF node_kind = ALIGNMENT THEN [kind |-> "dict"]
                             ELSE ResultPickle(upstream_analysis_info(list, {}))
    /\ run' = run + 1
    /\ pc' = "submitted"
    /\ now' = now + 1
    /\ expt_config' = ExptConfigWriter_write(expt_config, "name")
    /\ pickle' = NoPickle
    /\ fetched' = {}
    /\ deletions' = 0
    /\ skipped_before' = IF outcome = "returned"
                         THEN {p \in DOMAIN fate : fate[p] = "skipped"}
                         ELSE {}
    /\ invoked' = {} /\ fate' = <<>> /\ confirmed' = {} /\ listed' = {} /\ outcome' = "none"
    /\ missing_at_start' = {}
    /\ UNCHANGED <<nodes, node_kind, dirs, files, workflow_info, local_vars>>
    /\ UNCHANGED <<manifest_vars, ledger_vars>>

NextReruns ==
    \/ SubmitRerun
    \/ BeginAlignment
    \/ BeginSegment1
    \/ SubjectSkipped
    \/ SubjectInputMissing
    \/ SubjectProcessed
    \/ SubjectRaised
    \/ NodeFailed
    \/ NodeReturned
    \/ FetchResult

SpecReruns == Init /\ [][NextReruns]_vars

(***************************************************************************)
(* The workflow alignment -> segment1 executed up to MaxRuns times on the  *)
(* same images, all of them on disk.  No node of it records ERROR for a    *)
(* subject, so the previous-error branch of segment1 has no step here.     *)
(***************************************************************************)
InitPipeline == InitOf({ALIGNMENT, SEGMENT1})

NextPipeline ==
    \/ SubmitAlignment
    \/ RunnerInputError
    \/ BeginAlignment
    \/ ScheduleDownstream
    \/ BeginSegment1
    \/ SubjectSkipped
    \/ SubjectInputMissing
    \/ SubjectProcessed
    \/ SubjectRaised
    \/ NodeFailed
    \/ NodeReturned
    \/ FetchResult
    \/ DeleteOutputFile

SpecPipeline == InitPipeline /\ [][NextPipeline]_vars

(***************************************************************************)
(* experiment.yaml under its two writers, step by step.  Runner (the       *)
(* snakemake process) and the status fetcher (the API process) each update *)
(* the file by ExptConfigReader.read, a change of the object read, and     *)
(* ConfigWriter.write of the whole object; nothing orders the read of one  *)
(* against the write of the other.  Each writer has one update in progress *)
(* at a time.                                                              *)
(***************************************************************************)
\* WorkflowResult.has_nwb for a .nwb file found: of a node, or (node id None) of the
\* workflow.
has_nwb(config, id) ==
    IF id = "None" THEN [config EXCEPT !.hasNWB = TRUE]
    ELSE [config EXCEPT !.function[id].hasNWB = TRUE]

\* The ledgers a node returns here: one image, processed or in error.
OutcomeLedgers ==
    {upstream_analysis_info(<<ProjectImages[1]>>, failed) : failed \in SUBSET {ProjectImages[1]}}

\* The change an update makes to the ExptConfig it has read.
apply_update(config, op) ==
    CASE op.kind = "start" -> set_func_start_timestamp(config, op.id)
      [] op.kind = "outcome" -> update_experiment_file(config, op.id, op.info.analysis_info_out)
      [] op.kind = "result" -> NodeResult_get(config, op.id, op.info)
      [] op.kind = "nwb" -> has_nwb(config, op.id)
      [] OTHER -> config

\* routers/run.py: ExptConfigWriter.write creates experiment.yaml for the graph.
OpenManifest ==
    /\ IsPipeline
    /\ pc = "idle"
    /\ ~expt_config.exists
    /\ expt_config' = ExptConfigWriter_write(expt_config, "name")
    /\ serial_config' = ExptConfigWriter_write(expt_config, "name")
    /\ UNCHANGED <<nodes, node_kind, run, pc, now, request_vars, local_vars, dirs, files,
                   workflow_info, pickle, fetched, history_vars, missing_at_start, deletions,
                   executor_op, executor_copy, fetcher_op, fetcher_copy, updates, recorded,
                   fetcher_writes>>
    /\ UNCHANGED <<ledger_vars, rerun_vars>>

\* Runner begins set_func_start_timestamp (for a node that has not returned yet) or
\* update_experiment_file (with the ledger the node returned): ExptConfigReader.read.
ExecutorRead ==
    /\ expt_config.exists
    /\ executor_op = NoUpdate
    /\ updates < MaxUpdates
    /\ \E id \in nodes :
          \/ /\ id \notin DOMAIN recorded
             /\ executor_op' = [kind |-> "start", id |-> id, info |-> NoPickle]
          \/ \E info \in OutcomeLedgers :
                executor_op' = [kind |-> "outcome", id |-> id, info |-> ResultPickle(info)]
    /\ executor_copy' = expt_config
    /\ updates' = updates + 1
    /\ UNCHANGED <<nodes, node_kind, run, pc, now, request_vars, local_vars, dirs, files,
                   workflow_info, expt_config, pickle, fetched, history_vars,
                   missing_at_start, deletions, fetcher_op, fetcher_copy, recorded,
                   serial_config, fetcher_writes>>
    /\ UNCHANGED <<ledger_vars, rerun_vars>>

\* Runner ends the update: ConfigWriter.write of the changed object.
ExecutorWrite ==
    /\ executor_op /= NoUpdate
    /\ expt_config' = apply_update(executor_copy, executor_op)
    /\ serial_config' = apply_update(serial_config, executor_op)
    /\ recorded' = IF executor_op.kind = "outcome"
                   THEN [n \in DOMAIN recorded \cup {executor_op.id} |->
                           IF n = executor_op.id
                           THEN apply_update(executor_copy, executor_op).function[n]
                           ELSE recorded[n]]
                   ELSE recorded
    /\ executor_op' = NoUpdate
    /\ UNCHANGED <<nodes, node_kind, run, pc, now, request_vars, local_vars, dirs, files,
                   workflow_info, pickle, fetched, history_vars, missing_at_start, deletions,
                   executor_copy, fetcher_op, fetcher_copy, updates, fetcher_writes>>
    /\ UNCHANGED <<ledger_vars, rerun_vars>>

\* The status fetcher begins an update, ExptConfigReader.read: NodeResult.get on the
\* pickle of a node that has returned (Runner writes the pickle after it has recorded
\* the outcome), or has_nwb once the last node has returned and the .nwb file of the
\* workflow is written.
FetcherRead ==
    /\ expt_config.exists
    /\ fetcher_op = NoUpdate
    /\ updates < MaxUpdates
    /\ \/ \E id \in DOMAIN recorded, info \in OutcomeLedgers :
             /\ executor_op.id /= id
             /\ fetcher_op' = [kind |-> "result", id |-> id, info |-> ResultPickle(info)]
       \/ /\ SEGMENT1 \in DOMAIN recorded
          /\ executor_op.id /= SEGMENT1
          /\ fetcher_op' = [kind |-> "nwb", id |-> "None", info |-> NoPickle]
    /\ fetcher_copy' = expt_config
    /\ updates' = updates + 1
    /\ UNCHANGED <<nodes, node_kind, run, pc, now, request_vars, local_vars, dirs, files,
                   workflow_info, expt_config, pickle, fetched, history_vars,
                   missing_at_start, deletions, executor_op, executor_copy, recorded,
                   serial_config, fetcher_writes>>
    /\ UNCHANGED <<ledger_vars, rerun_vars>>

\* The status fetcher ends the update: ConfigWriter.write of the changed object.
FetcherWrite ==
    /\ fetcher_op /= NoUpdate
    /\ expt_config' = apply_update(fetcher_copy, fetcher_op)
    /\ serial_config' = apply_update(serial_config, fetcher_op)
    /\ fetcher_writes' = fetcher_writes + 1
    /\ fetcher_op' = NoUpdate
    /\ UNCHANGED <<nodes, node_kind, run, pc, now, request_vars, local_vars, dirs, files,
                   workflow_info, pickle, fetched, history_vars, missing_at_start, deletions,
                   executor_op, executor_copy, fetcher_copy, updates, recorded>>
    /\ UNCHANGED <<ledger_vars, rerun_vars>>

InitManifest == InitOf({ALIGNMENT, SEGMENT1})

NextManifest ==
    \/ OpenManifest
    \/ ExecutorRead
    \/ ExecutorWrite
    \/ FetcherRead
    \/ FetcherWrite

SpecManifest == InitManifest /\ [][NextManifest]_vars

(***************************************************************************)
(* AnalysisInfo on its own: an object is constructed from a list of paths  *)
(* and a group_info dict, then getters, setters, create_new_analysis_info  *)
(* and get_grouped_workflow_input_file_paths are called on it and on the   *)
(* object derived from it, with paths in several spellings.                *)
(***************************************************************************)
\* Spellings of a path that pathlib resolves to the path itself.
Styles == {"plain", "dotted", "parent"}
spelled(path, style) ==
    CASE style = "dotted" -> <<path[1], ".", path[2]>>
      [] style = "parent" -> <<path[1], "..", path[1], path[2]>>
      [] OTHER -> path

\* The paths a caller lists: the first image as it is and through its parent folder, the
\* second as it is.  The paths a caller passes to a getter or setter: the first image in
\* both spellings and the third, which no list holds.
FirstImageSpellings == {spelled(ProjectImages[1], st) : st \in {"plain", "parent"}}
SubjectListInputs ==
    UNION {[1..k -> FirstImageSpellings \cup {ProjectImages[2]}] : k \in 1..MaxSubjects}
CallPaths == FirstImageSpellings \cup {ProjectImages[3]}

\* The group of a path: its folder (as get_factors gives it), or folder and subject.
group_of(path, scheme) ==
    IF scheme = "folder" THEN <<path[1]>> ELSE <<path[1], get_subject_name(path)>>

\* The group_info dicts passed: any of the project's images as keys, spelled with a dot.
GroupInfoInputs ==
    {[k \in {spelled(p, "dotted") : p \in K} |-> group_of(check_path_format(k), scheme)] :
        K \in SUBSET PathsAll, scheme \in {"folder", "subject"}}

\* AnalysisInfo(wf_input_file_path_list, group_info, node_analysis_type)
Construct ==
    /\ heap = <<>>
    /\ \E wf_input_file_path_list \in SubjectListInputs, group_info \in GroupInfoInputs :
          /\ info_args' = [wf_input_file_path_list |-> wf_input_file_path_list,
                           group_info |-> group_info]
          /\ heap' = <<AnalysisInfo(wf_input_file_path_list, group_info, ALIGNMENT)>>
    /\ info_call' = [op |-> "AnalysisInfo", ref |-> 1, path |-> <<>>, raised |-> "",
                     before |-> heap]
    /\ UNCHANGED <<nodes, node_kind, run, pc, now, request_vars, local_vars, dirs, files,
                   workflow_info, expt_config, pickle, fetched, history_vars,
                   missing_at_start, deletions, manifest_vars, rerun_vars, derived_ref, info_calls>>

\* A setter that files the value under a new record when the dict has none for the path.
setter_called_creating(ref, op, path, key, value, after) ==
    /\ heap' = IF KeyError(heap[ref], path)
               THEN [heap EXCEPT ![ref].unit_analysis_info_dict =
                        [p \in DOMAIN @ \cup {check_path_format(path)} |->
                            IF p \in DOMAIN @ THEN @[p] ELSE UnitAnalysisInfo(p, NoGroup)]]
               ELSE [heap EXCEPT ![ref] = after]
    /\ info_call' = [op |-> op, ref |-> ref, path |-> path, key |-> key,
                     value |-> value, raised |-> "", before |-> heap]

\* A setter called on the object heap[ref]: the subscript raises KeyError before anything
\* is assigned, or the assignment is made (after: the object with the assignment made).
setter_called(ref, op, path, key, value, after) ==
    /\ heap' = IF KeyError(heap[ref], path) THEN heap
               ELSE [heap EXCEPT ![ref] = after]
    /\ info_call' = [op |-> op, ref |-> ref, path |-> path, key |-> key,
                     value |-> value,
                     raised |-> IF KeyError(heap[ref], path) THEN "KeyError" ELSE "",
                     before |-> heap]

\* The values the setters are called with.
StatusInputs == {PROCESSED}
OutputPathInputs == {{<<SEGMENT1, "sub-01_T1", ".", "c1sub-01_T1">>}}
MessageInputs == {format_exc(NodeFunctionFailure)}
PropertyInputs == {"01"}

CallSetter ==
    /\ heap /= <<>>
    /\ info_calls < MaxCalls
    /\ \E ref \in 1..Len(heap), path \in CallPaths :
          \/ setter_called(ref, "set_analysis_start_time", path, "", now,
                           set_analysis_start_time(heap[ref], path, now))
          \/ setter_called(ref, "set_analysis_end_time", path, "", now,
                           set_analysis_end_time(heap[ref], path, now))
          \/ \E value \in OutputPathInputs :
                setter_called(ref, "set_output_file_paths", path, "", value,
                              set_output_file_paths(heap[ref], path, value))
          \/ \E value \in StatusInputs :
                setter_called(ref, "set_analysis_status", path, "", value,
                              set_analysis_status(heap[ref], path, value))
          \/ \E value \in PropertyInputs :
                setter_called(ref, "set_property", path, "subject_name", value,
                              set_property(heap[ref], path, "subject_name", value))
          \/ \E value \in MessageInputs :
                setter_called(ref, "set_message", path, "", value,
                              set_message(heap[ref], path, value))
    /\ info_calls' = info_calls + 1
    /\ UNCHANGED <<nodes, node_kind, run, pc, now, request_vars, local_vars, dirs, files,
                   workflow_info, expt_config, pickle, fetched, history_vars,
                   missing_at_start, deletions, manifest_vars, rerun_vars, derived_ref, info_args>>

\* A getter called on the object heap[ref]: raises KeyError (no record under the cleaned
\* path; for get_property also no such property) or returns the field (result).
getter_called(ref, op, path, key, result) ==
    LET raises == \/ KeyError(heap[ref], path)
                  \/ op = "get_property" /\ KeyError_property(heap[ref], path, key)
    IN info_call' = [op |-> op, ref |-> ref, path |-> path, key |-> key,
                     raised |-> IF raises THEN "KeyError" ELSE "",
                     result |-> IF raises THEN <<>> ELSE <<result>>,
                     before |-> heap]

CallGetter ==
    /\ heap /= <<>>
    /\ info_calls < MaxCalls
    /\ \E ref \in 1..Len(heap), path \in CallPaths :
          \/ getter_called(ref, "get_analysis_start_time", path, "",
                           get_analysis_start_time(heap[ref], path))
          \/ getter_called(ref, "get_analysis_end_time", path, "",
                           get_analysis_end_time(heap[ref], path))
          \/ getter_called(ref, "get_output_file_paths", path, "",
                           get_output_file_paths(heap[ref], path))
          \/ getter_called(ref, "get_analysis_status", path, "",
                           get_analysis_status_of(heap[ref], path))
          \/ getter_called(ref, "get_property", path, "subject_name",
                           get_property(heap[ref], path, "subject_name"))
          \/ getter_called(ref, "get_message", path, "",
                           get_message(heap[ref], path))
    /\ info_calls' = info_calls + 1
    /\ UNCHANGED <<nodes, node_kind, run, pc, now, request_vars, local_vars, dirs, files,
                   workflow_info, expt_config, pickle, fetched, history_vars,
                   missing_at_start, deletions, manifest_vars, rerun_vars, heap, derived_ref,
                   info_args>>

\* create_new_analysis_info called, once, on the constructed object.
Derive ==
    /\ heap /= <<>>
    /\ derived_ref = 0
    /\ LET made == new_object(heap, create_new_analysis_info(heap[1], SEGMENT1))
       IN /\ heap' = made.heap
          /\ derived_ref' = made.ref
    /\ info_call' = [op |-> "create_new_analysis_info", ref |-> 1, path |-> <<>>,
                     raised |-> "", before |-> heap]
    /\ UNCHANGED <<nodes, node_kind, run, pc, now, request_vars, local_vars, dirs, files,
                   workflow_info, expt_config, pickle, fetched, history_vars,
                   missing_at_start, deletions, manifest_vars, rerun_vars, info_args, info_calls>>

\* get_grouped_workflow_input_file_paths called on an object.
Grouped ==
    /\ heap /= <<>>
    /\ info_calls < MaxCalls
    /\ \E ref \in 1..Len(heap) :
          info_call' = [op |-> "get_grouped_workflow_input_file_paths", ref |-> ref,
                        path |-> <<>>,
                        raised |-> IF TypeError(heap[ref]) THEN "TypeError" ELSE "",
                        result |-> IF TypeError(heap[ref]) THEN <<>>
                                   ELSE <<get_grouped_workflow_input_file_paths(heap[ref])>>,
                        before |-> heap]
    /\ info_calls' = info_calls + 1
    /\ UNCHANGED <<nodes, node_kind, run, pc, now, request_vars, local_vars, dirs, files,
                   workflow_info, expt_config, pickle, fetched, history_vars,
                   missing_at_start, deletions, manifest_vars, rerun_vars, heap, derived_ref,
                   info_args>>

InitLedger == InitOf({ALIGNMENT, SEGMENT1})

NextLedger ==
    \/ Construct
    \/ CallSetter
    \/ CallGetter
    \/ Derive
    \/ Grouped

SpecLedger == InitLedger /\ [][NextLedger]_vars

(***************************************************************************)
(* Properties.                                                             *)
(***************************************************************************)
\* The ledgers of a state: the one the node is filling and the one it was given.
Ledgers ==
    {analysis_info_out}
    \cup (IF input_pickle.kind = "dict" /\ "analysis_info_out" \in DOMAIN input_pickle
          THEN {input_pickle.analysis_info_out} ELSE {})

statuses_of(info) ==
    {info.unit_analysis_info_dict[p].analysis_status : p \in Range(info.wf_input_file_path_list)}

\* The node function has gone through all its subjects.
LoopOver == \/ pc = "loop" /\ idx > Len(wf_list)
            \/ pc = "done" /\ outcome \in {"returned", "node_failed"}

\* How a subject fails: the node function raised, its input was missing, or its
\* upstream record was an error.
Failures == {"raised", "input_missing", "previous_error"}

\* C1: for every ledger with at least one subject, the aggregate status is ERROR if
\* and only if every record is ERROR or PREVIOUS_ERROR, and it is PROCESSED as soon as
\* one record has another status (so a mix of successes and failures is PROCESSED).
C1_AggregateStatus ==
    \A info \in Ledgers :
        info.wf_input_file_path_list /= <<>> =>
            /\ get_analysis_status(info) = ERROR
                  <=> statuses_of(info) \subseteq {ERROR, PREVIOUS_ERROR}
            /\ ~(statuses_of(info) \subseteq {ERROR, PREVIOUS_ERROR})
                  => get_analysis_status(info) = PROCESSED

\* A segment1 ledger holding a processed subject after a subject in error, the node
\* status being PROCESSED.
C1_Witness ==
    /\ LoopOver
    /\ Len(analysis_info_out.wf_input_file_path_list) = 2
    /\ get_analysis_status_of(analysis_info_out, wf_list[1]) = PREVIOUS_ERROR
    /\ get_analysis_status_of(analysis_info_out, wf_list[2]) = PROCESSED
    /\ get_analysis_status(analysis_info_out) = PROCESSED

\* C2 as stated: once the node has gone through its subjects, it raises the
\* node-failed condition if every subject failed (the node function raised, the input
\* was missing, or an upstream failure was inherited), and returns its ledger if one
\* subject was processed or skipped.
C2_NodeFailsWhenAllFail ==
    (pc = "done" /\ outcome \in {"returned", "node_failed"} /\ wf_list /= <<>>) =>
        IF \A p \in Range(wf_list) : fate[p] \in Failures
        THEN outcome = "node_failed" /\ pickle.kind = "error"
        ELSE outcome = "returned" /\ pickle.kind = "dict"

\* The output files the node function produces for a file.
produced_output_paths(p) ==
    LET name == get_file_name_without_extension(p)
    IN IF node_kind = ALIGNMENT
       THEN {<<ALIGNMENT, name, alignment_file_name(name)>>}
       ELSE {<<SEGMENT1, name, f>> : f \in segment_file_names(name)}

\* C3 as stated: a subject whose invocation returned has the produced output paths
\* and status PROCESSED; a subject whose invocation raised has status ERROR and the
\* formatted failure as its message.
C3_InvocationRecorded ==
    (pc \in {"loop", "done"} /\ outcome /= "input_error") =>
        \A p \in invoked :
            p \in DOMAIN fate =>
                /\ fate[p] = "processed" =>
                      /\ get_analysis_status_of(analysis_info_out, p) = PROCESSED
                      /\ get_output_file_paths(analysis_info_out, p) = produced_output_paths(p)
                /\ fate[p] = "raised" =>
                      /\ get_analysis_status_of(analysis_info_out, p) = ERROR
                      /\ get_message(analysis_info_out, p) = format_exc(NodeFunctionFailure)

\* The node function has been entered in this execution.
NodeEntered == pc = "loop" \/ (pc = "done" /\ outcome \in {"returned", "node_failed"})

\* What the resume index of the node records for a file, and whether all of it is
\* on disk.
recorded_success(previous, p) == p \in DOMAIN previous /\ previous[p].success = "success"
recorded_outputs_exist(previous, p) == \A f \in previous[p].output_file_paths : isfile(f)

\* C4: skip_node_analysis is true exactly when skip is enabled, the resume index has
\* an entry for the file, the entry records success and every recorded output path is
\* a file; skip_alignment is true exactly when, in addition, the alignment parameters
\* are the default ones [0,0,0,0,0,0,1,1,1].
C4_SkipDecision ==
    \A previous \in {get_previous_node_analysis_info(node_id), previous_node_analysis_info} :
      \A p \in PathsAll, skip \in BOOLEAN :
        LET allowed == /\ skip
                       /\ recorded_success(previous, p)
                       /\ recorded_outputs_exist(previous, p)
        IN /\ skip_node_analysis(p, skip, previous) = allowed
           /\ \A params \in {DEFAULT_ALIGNMENT_PARAMS, MOVED_ALIGNMENT_PARAMS} :
                 skip_alignment(p, skip, previous, params)
                     = (allowed /\ params = DEFAULT_ALIGNMENT_PARAMS)

\* A rerun in which one file was skipped and another, recorded as a success but with
\* a recorded output gone, was not.
C4_Witness ==
    /\ LoopOver
    /\ skip_analyzed
    /\ \E p, q \in Range(wf_list) :
          /\ get_file_name_without_extension(p) /= get_file_name_without_extension(q)
          /\ fate[p] = "skipped"
          /\ fate[q] /= "skipped"
          /\ recorded_success(previous_node_analysis_info, q)
          /\ previous_node_analysis_info[q].output_file_paths \cap missing_at_start /= {}

\* The premises of Scenario B for the node being executed: a rerun with skip enabled
\* on the subjects of the run before, all of them recorded as successes, none of the
\* recorded output files missing when the node function is entered.
C5_Rerun ==
    /\ NodeEntered
    /\ run >= 2
    /\ skip_analyzed
    /\ wf_list /= <<>>
    /\ DOMAIN previous_node_analysis_info = Range(wf_list)
    /\ \A p \in Range(wf_list) : previous_node_analysis_info[p].success = "success"
    /\ missing_at_start = {}

\* What the node is given for a file by its upstream: the image itself for the
\* alignment node, the alignment node's output paths for segment1.
upstream_output_paths(p) ==
    IF node_kind = ALIGNMENT THEN {p}
    ELSE input_pickle.analysis_info_out.unit_analysis_info_dict[p].output_file_path_list

C5_AllSkipped ==
    /\ invoked = {}
    /\ \A p \in DOMAIN fate :
          /\ fate[p] = "skipped"
          /\ get_analysis_status_of(analysis_info_out, p) = SKIPPED
          /\ get_output_file_paths(analysis_info_out, p) = upstream_output_paths(p)

\* C5 as stated: in a rerun of the workflow on the same subjects with unchanged
\* parameters, skip enabled, every subject recorded as a success and every recorded
\* output file present, every subject is SKIPPED with its upstream output paths as
\* its output paths and the node function is never invoked.
C5_AsStated == C5_Rerun => C5_AllSkipped

\* C5, amended: the same, for the alignment node provided its alignment parameters
\* are the default ones.
C5_SkippedRerun ==
    (/\ C5_Rerun
     /\ node_kind = ALIGNMENT =>
           \A p \in Range(wf_list) : alignment_params[p] = DEFAULT_ALIGNMENT_PARAMS)
    => C5_AllSkipped

\* The segment1 node at the end of such a rerun of two subjects.
C5_Witness ==
    /\ C5_Rerun
    /\ node_kind = SEGMENT1
    /\ pc = "done"
    /\ Len(wf_list) = 2
    /\ \A p \in Range(wf_list) :
          /\ p \in DOMAIN fate
          /\ fate[p] = "skipped"
          /\ get_output_file_paths(analysis_info_out, p) /= {}

\* C6 as stated: in a rerun with skip enabled, a subject recorded as a success of
\* which a recorded output file is gone is not SKIPPED and the node function is
\* invoked for it; every other subject recorded as a success is SKIPPED.
C6_AsStated ==
    (LoopOver /\ skip_analyzed /\ run >= 2) =>
        \A p \in Range(wf_list) :
            recorded_success(previous_node_analysis_info, p) =>
                IF previous_node_analysis_info[p].output_file_paths \cap missing_at_start /= {}
                THEN fate[p] /= "skipped" /\ p \in invoked
                ELSE fate[p] = "skipped"

\* C6, amended: in a run with skip enabled, when a subject recorded as a success is
\* evaluated, it is not SKIPPED if a recorded output file is no file at that time (it
\* is then handled as a subject never run: the node function is invoked for it
\* unless its upstream record is an error or its input is missing); it is SKIPPED if
\* all its recorded output files are there, for the alignment node provided its
\* alignment parameters are the default ones.
C6_MissingOutputNotSkipped ==
    [][(/\ InLoop
        /\ skip_analyzed
        /\ recorded_success(previous_node_analysis_info, wf_input_path))
       => IF ~recorded_outputs_exist(previous_node_analysis_info, wf_input_path)
          THEN /\ fate'[wf_input_path] /= "skipped"
               /\ wf_input_path \in invoked' <=> (~previous_error /\ input_exists)
          ELSE \/ fate'[wf_input_path] = "skipped"
               \/ /\ node_kind = ALIGNMENT
                  /\ alignment_params[wf_input_path] /= DEFAULT_ALIGNMENT_PARAMS]_vars

\* A rerun of two subjects recorded as successes: the one with an output file gone is
\* processed again, the other is skipped.
C6_Witness ==
    /\ LoopOver
    /\ skip_analyzed
    /\ \E p, q \in Range(wf_list) :
          /\ recorded_success(previous_node_analysis_info, p)
          /\ recorded_success(previous_node_analysis_info, q)
          /\ previous_node_analysis_info[p].output_file_paths \cap missing_at_start /= {}
          /\ get_file_name_without_extension(p) /= get_file_name_without_extension(q)
          /\ fate[p] = "processed"
          /\ p \in invoked
          /\ fate[q] = "skipped"
          /\ q \notin invoked

\* C7 as stated: when every subject of a node has failed, the manifest afterwards
\* shows the node with status error and with an entry for each subject that holds the
\* subject's status and failure message.
C7_ManifestShowsFailures ==
    (/\ pc = "done"
     /\ outcome \in {"returned", "node_failed"}
     /\ node_id \in fetched
     /\ wf_list /= <<>>
     /\ \A p \in Range(wf_list) : fate[p] \in Failures)
    => LET function == expt_config.function[node_id]
       IN /\ function.success = "error"
          /\ \A p \in Range(wf_list) :
                LET subject == get_property(analysis_info_out, p, "subject_name")
                IN /\ subject \in DOMAIN function.subjects
                   /\ \E i \in 1..Len(function.subjects[subject].message) :
                         /\ function.subjects[subject].message[i]
                               = get_message(analysis_info_out, p)
                         /\ function.subjects[subject].message[i] /= <<>>

\* C8: the node function is invoked only when the node's upstream has left a result:
\* if the upstream ended in a failure (the node-failed condition or another fatal
\* error), the node function of the downstream node is invoked for no subject, the
\* node ends with a failure of its own and the manifest shows it with status error.
C8_UpstreamGate ==
    /\ invoked /= {} => input_pickle.kind = "dict"
    /\ (run > 0 /\ input_pickle.kind = "error") =>
          /\ invoked = {}
          /\ pc \in {"submitted", "done"}
          /\ pc = "done" => (outcome = "input_error" /\ pickle.kind = "error")
          /\ node_id \in fetched => expt_config.function[node_id].success = "error"

\* The segment1 node after the alignment node ended with the node-failed condition.
C8_Witness ==
    /\ IsPipeline
    /\ node_kind = SEGMENT1
    /\ input_pickle = ErrorPickle(AllProcessingsFailed)
    /\ pc = "done"
    /\ invoked = {}
    /\ SEGMENT1 \in fetched
    /\ expt_config.function[SEGMENT1].success = "error"

\* C9: within one node execution, a directory that has been confirmed is not in the
\* unused list again and is not deleted by the clean-up at the end of the node.
C9_ConfirmedKept ==
    NodeEntered =>
        /\ confirmed \cap unused_output_dir_path_list = {}
        /\ confirmed \subseteq dirs

\* A directory found before the loop is confirmed for the first subject, the second
\* subject fails, and the node has returned after its clean-up.
C9_Witness ==
    /\ pc = "done"
    /\ outcome = "returned"
    /\ Len(wf_list) = 2
    /\ Append(node_dir_path, get_file_name_without_extension(wf_list[1]))
          \in confirmed \cap listed \cap dirs
    /\ fate[wf_list[2]] \in Failures
    /\ listed \ confirmed /= {}

\* C10: when the node returns, every directory that was under its output directory
\* before the node started and was not confirmed is gone; when the node ends with the
\* node-failed condition, every directory of the unused list is still there.
C10_CleanUp ==
    pc = "done" =>
        /\ outcome = "returned" => (listed \ confirmed) \cap dirs = {}
        /\ outcome = "node_failed" =>
              /\ unused_output_dir_path_list = listed
              /\ unused_output_dir_path_list \subseteq dirs

\* The node has returned and its clean-up has deleted a directory of a subject that
\* is no longer part of the run.
C10_Witness ==
    /\ pc = "done"
    /\ outcome = "returned"
    /\ \E d \in listed \ confirmed :
          /\ d \notin dirs
          /\ \A p \in Range(wf_list) : Append(node_dir_path, get_file_name_without_extension(p)) /= d

\* Whether the token sequence part occurs in the message.
contains(message, part) ==
    \E i \in 0..(Len(message) - Len(part)) : SubSeq(message, i + 1, i + Len(part)) = part

\* The subjects of the segment1 node whose upstream record is an error.
upstream_failed ==
    IF node_kind = SEGMENT1 /\ input_pickle.kind = "dict"
    THEN {p \in Range(wf_list) :
            get_analysis_status_of(analysis_info_in, p) \in {ERROR, PREVIOUS_ERROR}}
    ELSE {}

status_forward(from, to) ==
    \/ from = WAIT /\ to \in {PROCESSING, PROCESSED, ERROR, SKIPPED, PREVIOUS_ERROR}
    \/ from = PROCESSING /\ to \in {PROCESSED, ERROR}

run_level(config) == [config EXCEPT !.function = <<>>]

\* C11: as long as update_experiment_file (and the start timestamp of nodes not yet
\* recorded) is all that has written experiment.yaml since it was created, the file
\* holds for every recorded node exactly the outcome last recorded for it, and its
\* run-level fields are those written when it was created.
C11_OutcomesKept ==
    (expt_config.exists /\ fetcher_writes = 0 /\ executor_op = NoUpdate) =>
        /\ \A n \in DOMAIN recorded :
              /\ n \in DOMAIN expt_config.function
              /\ expt_config.function[n] = recorded[n]
        /\ run_level(expt_config) = run_level(ExptConfigWriter_write(NoExptConfig, "name"))

\* Both nodes have been recorded, with different outcomes, in four updates (so one of
\* them was recorded again or started in between), and nothing else has written.
C11_Witness ==
    /\ expt_config.exists
    /\ fetcher_writes = 0
    /\ fetcher_op = NoUpdate
    /\ executor_op = NoUpdate
    /\ updates = MaxUpdates
    /\ DOMAIN recorded = {ALIGNMENT, SEGMENT1}
    /\ recorded[ALIGNMENT].subjects /= recorded[SEGMENT1].subjects
    /\ expt_config.function[ALIGNMENT].subjects = recorded[ALIGNMENT].subjects

\* C12 as stated: whatever the interleaving of the updates of Runner with those of
\* the status fetcher, no update is lost: once no update is in progress,
\* experiment.yaml is what the updates give when each is applied whole, in the order
\* in which they were written.
C12_NoLostUpdate ==
    (expt_config.exists /\ executor_op = NoUpdate /\ fetcher_op = NoUpdate) =>
        expt_config = serial_config

(***************************************************************************)
(* AnalysisInfo on its own (SpecLedger).                                   *)
(***************************************************************************)
SetterNames == {"set_analysis_start_time", "set_analysis_end_time", "set_output_file_paths",
                "set_analysis_status", "set_property", "set_message"}
GetterNames == {"get_analysis_start_time", "get_analysis_end_time", "get_output_file_paths",
                "get_analysis_status", "get_property", "get_message"}

\* The attribute of UnitAnalysisInfo a getter returns and a setter assigns.
attribute_of(op) ==
    CASE op \in {"set_analysis_start_time", "get_analysis_start_time"} -> "analysis_start_time"
      [] op \in {"set_analysis_end_time", "get_analysis_end_time"} -> "analysis_end_time"
      [] op \in {"set_output_file_paths", "get_output_file_paths"} -> "output_file_path_list"
      [] op \in {"set_analysis_status", "get_analysis_status"} -> "analysis_status"
      [] op \in {"set_property", "get_property"} -> "properties"
      [] OTHER -> "message"

\* Every spelling of a path of the project, and the file a spelling names.
AllSpellings == {spelled(d, st) : d \in PathsAll, st \in Styles}
file_of(path) == CHOOSE d \in PathsAll : \E st \in Styles : path = spelled(d, st)
\* The files the constructor was given, in whatever spelling.
declared_files ==
    {file_of(info_args.wf_input_file_path_list[i]) :
        i \in 1..Len(info_args.wf_input_file_path_list)}

\* The record a setter call leaves, given the record it found.
record_after(old, call) ==
    CASE call.op = "set_output_file_paths" ->
            [old EXCEPT !.output_file_path_list = check_path_format_set(call.value)]
      [] call.op = "set_property" ->
            [old EXCEPT !.properties =
                [k \in DOMAIN old.properties \cup {call.key} |->
                    IF k = call.key THEN call.value ELSE old.properties[k]]]
      [] OTHER -> [old EXCEPT ![attribute_of(call.op)] = call.value]

\* C16: check_path_format is idempotent, and a getter or setter called with any spelling
\* of the path of a file the AnalysisInfo was constructed with reads or writes the one
\* record of that file: the setter raises nothing, assigns its attribute of that record
\* and leaves everything else; the getter changes nothing and returns that record's
\* attribute (get_property raising KeyError only for a property the record lacks).
C16_OneRecordPerSpelling ==
    /\ \A path \in AllSpellings :
          check_path_format(check_path_format(path)) = check_path_format(path)
    /\ (info_call.op \in SetterNames \cup GetterNames
        /\ file_of(info_call.path) \in declared_files) =>
          LET d == file_of(info_call.path)
              old == info_call.before[info_call.ref].unit_analysis_info_dict
              new == heap[info_call.ref].unit_analysis_info_dict
          IN /\ d \in DOMAIN old
             /\ info_call.op \in SetterNames =>
                   /\ info_call.raised = ""
                   /\ new = [q \in DOMAIN old |->
                               IF q = d THEN record_after(old[d], info_call) ELSE old[q]]
                   /\ \A r \in 1..Len(heap) :
                         r /= info_call.ref => heap[r] = info_call.before[r]
             /\ info_call.op \in GetterNames =>
                   /\ heap = info_call.before
                   /\ IF info_call.op = "get_property"
                         /\ info_call.key \notin DOMAIN old[d].properties
                      THEN info_call.raised = "KeyError"
                      ELSE /\ info_call.raised = ""
                           /\ info_call.result =
                                 <<IF info_call.op = "get_property"
                                   THEN old[d].properties[info_call.key]
                                   ELSE old[d][attribute_of(info_call.op)]>>

\* A file listed under one spelling has had its status set, and read back, under another.
C16_Witness ==
    /\ info_call.op = "get_analysis_status"
    /\ info_call.path = spelled(ProjectImages[1], "parent")
    /\ info_args.wf_input_file_path_list[1] = ProjectImages[1]
    /\ info_call.raised = ""
    /\ info_call.result = <<PROCESSED>>

\* C17: a setter called with a path that is no spelling of a file the AnalysisInfo was
\* constructed with raises an error, leaves every record of every object as it was and
\* creates no record.
C17_UnknownSubjectRejected ==
    (info_call.op \in SetterNames /\ file_of(info_call.path) \notin declared_files) =>
        /\ info_call.raised = "KeyError"
        /\ heap = info_call.before
        /\ DOMAIN heap[info_call.ref].unit_analysis_info_dict = declared_files

\* set_property has been called on the derived object with a file that was not listed.
C17_Witness ==
    /\ info_call.op = "set_property"
    /\ info_call.path = ProjectImages[3]
    /\ info_call.raised = "KeyError"
    /\ info_call.ref = derived_ref
    /\ declared_files = {ProjectImages[1], ProjectImages[2]}

\* The group the group_info passed to the constructor gives a file: the value under the
\* key that spells the file, None when no key does.
group_given(d) ==
    LET keys == {k \in DOMAIN info_args.group_info : file_of(k) = d}
    IN IF keys = {} THEN NoGroup ELSE info_args.group_info[CHOOSE k \in keys : TRUE]

\* C18: the constructed AnalysisInfo has exactly one record per file listed, each with
\* status WAIT, no output path, the empty message, no start and no end time, and the
\* group that group_info gives that file; a group_info key that names no listed file
\* gives no record and no record its group.
C18_FreshRecordPerSubject ==
    info_call.op = "AnalysisInfo" =>
        LET dict == heap[1].unit_analysis_info_dict
        IN /\ DOMAIN dict = declared_files
           /\ Len(heap[1].wf_input_file_path_list) = Len(info_args.wf_input_file_path_list)
           /\ \A d \in DOMAIN dict :
                 /\ dict[d].wf_input_file_path = d
                 /\ dict[d].analysis_status = WAIT
                 /\ dict[d].output_file_path_list = {}
                 /\ dict[d].message = <<>>
                 /\ dict[d].analysis_start_time = NoTime
                 /\ dict[d].analysis_end_time = NoTime
                 /\ dict[d].properties = <<>>
                 /\ dict[d].group = group_given(d)
           /\ \A k \in DOMAIN info_args.group_info :
                 file_of(k) \notin declared_files => file_of(k) \notin DOMAIN dict

\* One file listed twice under two spellings, a group for it and a group for a file that
\* was not listed.
C18_Witness ==
    /\ info_call.op = "AnalysisInfo"
    /\ info_args.wf_input_file_path_list =
          <<ProjectImages[1], spelled(ProjectImages[1], "parent")>>
    /\ DOMAIN info_args.group_info =
          {spelled(ProjectImages[1], "dotted"), spelled(ProjectImages[3], "dotted")}
    /\ DOMAIN heap[1].unit_analysis_info_dict = {ProjectImages[1]}

\* C19: create_new_analysis_info returns a new object with the list of paths of the
\* object it was called on, in the same order, and for every path the same group and
\* the same properties in a fresh record (status WAIT, no output path, the empty
\* message, no times); the object it was called on is as before, and stays as it was
\* under every setter call made on the new object.
C19_DerivedFreshUpstreamKept ==
    /\ info_call.op = "create_new_analysis_info" =>
          LET old == info_call.before[1]
              new == heap[derived_ref]
          IN /\ derived_ref \notin 1..Len(info_call.before)
             /\ heap[1] = old
             /\ new.wf_input_file_path_list = old.wf_input_file_path_list
             /\ DOMAIN new.unit_analysis_info_dict = DOMAIN old.unit_analysis_info_dict
             /\ \A d \in DOMAIN old.unit_analysis_info_dict :
                   new.unit_analysis_info_dict[d] =
                       [UnitAnalysisInfo(d, old.unit_analysis_info_dict[d].group)
                           EXCEPT !.properties = old.unit_analysis_info_dict[d].properties]
    /\ (info_call.op \in SetterNames /\ derived_ref /= 0 /\ info_call.ref = derived_ref) =>
          heap[1] = info_call.before[1]

\* An object with a property set is derived from, and the status of the same file is
\* then set on the derived object only.
C19_Witness ==
    /\ info_call.op = "set_analysis_status"
    /\ derived_ref = 2
    /\ info_call.ref = derived_ref
    /\ info_call.raised = ""
    /\ "subject_name" \in DOMAIN heap[1].unit_analysis_info_dict[ProjectImages[1]].properties
    /\ heap[2].unit_analysis_info_dict[ProjectImages[1]].properties =
          heap[1].unit_analysis_info_dict[ProjectImages[1]].properties
    /\ heap[2].unit_analysis_info_dict[ProjectImages[1]].analysis_status = PROCESSED
    /\ heap[1].unit_analysis_info_dict[ProjectImages[1]].analysis_status = WAIT

\* The paths of the list of an object whose record holds the given group, in list order.
paths_of_group(info, group) ==
    SelectSeq(info.wf_input_file_path_list,
              LAMBDA p : info.unit_analysis_info_dict[p].group = group)

\* What get_grouped_workflow_input_file_paths returned is a partition of the list by
\* group: every path is in the list of exactly one group, two paths are in the same
\* list exactly when their groups are equal, and each list keeps the order of the paths.
is_partition_by_group(info, out) ==
    LET list == info.wf_input_file_path_list
        dict == info.unit_analysis_info_dict
    IN /\ \A i \in 1..Len(list) :
             \E g \in DOMAIN out :
                /\ list[i] \in Range(out[g])
                /\ \A h \in DOMAIN out : list[i] \in Range(out[h]) => h = g
       /\ \A i, j \in 1..Len(list) :
             (\E g \in DOMAIN out : {list[i], list[j]} \subseteq Range(out[g]))
                <=> dict[list[i]].group = dict[list[j]].group
       /\ \A g \in DOMAIN out : out[g] = paths_of_group(info, g)

\* C20: get_grouped_workflow_input_file_paths, called on an AnalysisInfo, returns a
\* partition of its paths by group, in list order.
C20_GroupingPartitions ==
    info_call.op = "get_grouped_workflow_input_file_paths" =>
        /\ info_call.raised = ""
        /\ is_partition_by_group(heap[info_call.ref], info_call.result[1])

\* Every subject of the execution went through the node function, which returned.
all_processed ==
    /\ wf_list /= <<>>
    /\ \A p \in Range(wf_list) : p \in DOMAIN fate /\ fate[p] = "processed"

\* C21: when the node has processed all of its n subjects successfully (n >= 1), the
\* aggregate status is PROCESSED, the node returns, and the resume index recorded under
\* the node's id has exactly n entries, one per subject, each recording 'success' and
\* the output paths the node function produced for the subject.
C21_AllProcessedRecorded ==
    (LoopOver /\ all_processed) =>
        /\ get_analysis_status(analysis_info_out) = PROCESSED
        /\ pc = "done" =>
              /\ outcome = "returned"
              /\ "node_analysis" \in DOMAIN workflow_info
              /\ node_id \in DOMAIN workflow_info["node_analysis"]
              /\ LET node_info == workflow_info["node_analysis"][node_id]
                 IN /\ DOMAIN node_info = Range(wf_list)
                    /\ Cardinality(DOMAIN node_info) = Len(wf_list)
                    /\ \A p \in Range(wf_list) :
                          /\ node_info[p].success = "success"
                          /\ node_info[p].output_file_paths = produced_output_paths(p)

\* The second execution of a node has processed its single subject and recorded it,
\* the first execution having recorded two subjects.
C21_Witness ==
    /\ pc = "done"
    /\ outcome = "returned"
    /\ all_processed
    /\ run = 2
    /\ Len(wf_list) = 1
    /\ Cardinality(DOMAIN previous_node_analysis_info) = 2
    /\ DOMAIN workflow_info["node_analysis"][node_id] = Range(wf_list)

\* The node outcomes of the manifest: the success field of every ExptFunction.
node_outcomes == {expt_config.function[n].success : n \in DOMAIN expt_config.function}

\* C22 as stated: while a node outcome is 'running', the overall status is 'running'
\* and finished_at is not set; and whenever the status fetcher has written a manifest
\* in which it finalized a node and no node outcome is 'running', the overall status
\* is 'error' if a node outcome is 'error' and 'success' otherwise, and finished_at is
\* set.
C22_OverallStatus ==
    expt_config.exists =>
        /\ "running" \in node_outcomes =>
              /\ expt_config.success = "running"
              /\ expt_config.finished_at = NoTime
        /\ (fetched /= {} /\ "running" \notin node_outcomes) =>
              /\ expt_config.success = IF "error" \in node_outcomes THEN "error" ELSE "success"
              /\ expt_config.finished_at /= NoTime

\* C23: create_config builds a manifest with overall status 'running' and an empty
\* node-outcome map; every submission (ExptConfigWriter.write) leaves an experiment.yaml
\* on storage, with overall status 'running' when none was stored, in which every node
\* of the graph has one outcome keyed by its node id, 'running', except the nodes of
\* type 'input', whose outcome is 'success' with started_at equal to finished_at.
C23_ManifestOpened ==
    [][run' /= run =>
          /\ expt_config'.exists
          /\ ~expt_config.exists =>
                /\ create_config("name").success = "running"
                /\ create_config("name").function = <<>>
                /\ expt_config'.success = "running"
          /\ DOMAIN expt_config'.function = {nodeDict[k].id : k \in DOMAIN nodeDict}
          /\ \A k \in DOMAIN nodeDict :
                LET outcome_of_node == expt_config'.function[nodeDict[k].id]
                IN /\ outcome_of_node.unique_id = nodeDict[k].id
                   /\ IF nodeDict[k].data.type = "input"
                      THEN /\ outcome_of_node.success = "success"
                           /\ outcome_of_node.started_at = outcome_of_node.finished_at
                           /\ outcome_of_node.started_at /= NoTime
                      ELSE outcome_of_node.success = "running"]_vars

\* A run id has just been opened for the first time: the input node is a success, the
\* analysis node is running.
C23_Witness ==
    /\ pc = "submitted"
    /\ run = 1
    /\ expt_config.exists
    /\ expt_config.success = "running"
    /\ expt_config.function[INPUT_NODE].success = "success"
    /\ expt_config.function[node_id].success = "running"

\* d is an immediate subdirectory of the output directory of the node being executed.
immediate_subdirectory(d) ==
    /\ Len(d) = Len(node_dir_path) + 1
    /\ SubSeq(d, 1, Len(node_dir_path)) = node_dir_path

\* C24: while the node is executed, every path of the 'unused' list is an immediate
\* subdirectory of the node's output directory, and the clean-up of a node that
\* returns removes only directories of that list and files below them: never the
\* node's output directory itself, nor a path outside it.
C24_CleanUpInsideNodeDir ==
    [][/\ pc' = "loop" =>
             \A d \in unused_output_dir_path_list' : immediate_subdirectory(d)'
       /\ (pc = "loop" /\ pc' = "done" /\ outcome' = "returned") =>
             /\ \A d \in dirs \ dirs' :
                   d \in unused_output_dir_path_list /\ immediate_subdirectory(d)
             /\ \A f \in files \ files' :
                   \E d \in unused_output_dir_path_list :
                       /\ immediate_subdirectory(d)
                       /\ Len(f) > Len(d)
                       /\ SubSeq(f, 1, Len(d)) = d]_vars

\* The segment1 node has returned and its clean-up has deleted a segment1 directory,
\* the directories of the alignment node being in place.
C24_Witness ==
    /\ pc = "done"
    /\ outcome = "returned"
    /\ node_kind = SEGMENT1
    /\ \E d \in listed \ confirmed : d \notin dirs /\ immediate_subdirectory(d)
    /\ \E d \in dirs : d[1] = ALIGNMENT

\* The node entries of a workflow_info.yaml.
node_analysis_of(info) == IF "node_analysis" \in DOMAIN info THEN info["node_analysis"] ELSE <<>>

\* C25: when Runner.run records the resume index of the node that returned, the entry
\* under the node's id becomes: for exactly the subjects of the node's ledger, the
\* output paths, status message and free-text message of the ledger (nothing of the
\* previous entry is kept); the entries of every other node id and the stored
\* workflow input file id list are unchanged.
C25_ResumeIndexFrame ==
    [][(pc = "loop" /\ pc' = "done" /\ outcome' = "returned") =>
          LET before == node_analysis_of(workflow_info)
              after == node_analysis_of(workflow_info')
          IN /\ DOMAIN after = DOMAIN before \cup {node_id}
             /\ DOMAIN after[node_id] = Range(analysis_info_out.wf_input_file_path_list)
             /\ \A p \in DOMAIN after[node_id] :
                   /\ DOMAIN after[node_id][p] = {"output_file_paths", "success", "message"}
                   /\ after[node_id][p].output_file_paths
                          = analysis_info_out.unit_analysis_info_dict[p].output_file_path_list
                   /\ after[node_id][p].success
                          = analysis_info_out.unit_analysis_info_dict[p].analysis_status
                   /\ after[node_id][p].message
                          = analysis_info_out.unit_analysis_info_dict[p].message
             /\ \A n \in DOMAIN before \ {node_id} : after[n] = before[n]
             /\ DOMAIN workflow_info' = DOMAIN workflow_info \cup {"node_analysis"}
             /\ \A k \in DOMAIN workflow_info \ {"node_analysis"} :
                   workflow_info'[k] = workflow_info[k]]_vars

\* The segment1 node has recorded its resume index beside the entry of the alignment
\* node and the workflow input file id list.
C25_Witness ==
    /\ pc = "done"
    /\ outcome = "returned"
    /\ node_kind = SEGMENT1
    /\ "wf_input_file_id_list" \in DOMAIN workflow_info
    /\ workflow_info["wf_input_file_id_list"] /= <<>>
    /\ DOMAIN node_analysis_of(workflow_info) = {ALIGNMENT, SEGMENT1}
    /\ DOMAIN node_analysis_of(workflow_info)[SEGMENT1] = Range(wf_list)

\* The output directory of a file in the node being executed.
output_dir_path_of(p) == Append(node_dir_path, get_file_name_without_extension(p))

\* C26 as stated: in the segment1 node, a subject that was neither skipped nor an
\* inherited failure and whose alignment derivative directory is absent or holds no
\* file is recorded as ERROR with the 'input data is not found' message, the node
\* function is not invoked for it, and the output directory it had in this node when
\* the node was entered is still there while the node goes through its subjects.
C26_MissingInputRecorded ==
    (NodeEntered /\ node_kind = SEGMENT1) =>
        \A p \in DOMAIN fate :
            fate[p] = "input_missing" =>
                /\ get_analysis_status_of(analysis_info_out, p) = ERROR
                /\ get_message(analysis_info_out, p) = format_exc(InputDataNotFound)
                /\ p \notin invoked
                /\ (pc = "loop" /\ output_dir_path_of(p) \in listed) =>
                      output_dir_path_of(p) \in dirs

\* The files of a set that lie in the output directory of the current subject.
in_output_dir(file_set) ==
    {f \in file_set : Len(f) = Len(output_dir_path) + 1
                      /\ SubSeq(f, 1, Len(output_dir_path)) = output_dir_path}

\* C27 as stated: whenever the node function is invoked for a subject (the first of
\* its name in this execution), nothing the node produced for it earlier is in the
\* subject's output directory at the call, and when the invocation has returned the
\* directory holds exactly the files the invocation wrote.
C27_StaleOutputRemoved ==
    [][(pc = "loop" /\ idx <= Len(wf_list) /\ wf_input_path \in invoked' \ invoked
        /\ \A q \in DOMAIN fate : get_file_name_without_extension(q) /= wf_input_name) =>
          /\ in_output_dir(files_at_call) = {}
          /\ fate'[wf_input_path] = "processed" => in_output_dir(files') = written_files]_vars

\* The subjects evaluated so far are the first idx - 1 of the list.
evaluated_in_order ==
    /\ idx \in 1..(Len(wf_list) + 1)
    /\ DOMAIN fate = {wf_list[i] : i \in 1..(idx - 1)}

\* C28: in the subject loop every step evaluates the subject at the current position
\* and moves to the next position, whatever the outcome of the subject (so every
\* subject is evaluated once, in list order), and the node function, once in its loop,
\* ends by returning its ledger (to a Runner.run that records it or fails to) or by
\* raising node-failed.
C28_LoopTerminates ==
    /\ [](pc = "loop" => evaluated_in_order)
    /\ [][(pc = "loop" /\ pc' = "loop") =>
             /\ idx' = idx + 1
             /\ DOMAIN fate' = DOMAIN fate \cup {wf_list[idx]}]_vars
    /\ [][(pc = "loop" /\ pc' = "done") =>
             /\ DOMAIN fate = Range(wf_list)
             /\ outcome' \in {"returned", "record_failed", "node_failed"}]_vars
    /\ (pc = "loop") ~> (pc = "done" /\ outcome \in {"returned", "record_failed", "node_failed"})

\* The node has returned its ledger after a loop in which the first subject failed and
\* the second was processed.
C28_Witness ==
    /\ pc = "done"
    /\ outcome = "returned"
    /\ Len(wf_list) = 2
    /\ fate[wf_list[1]] \in Failures
    /\ fate[wf_list[2]] = "processed"

\* C29: once the node has moved past a subject, a subject with a start time has an end
\* time, not earlier than the start time, whether the node function returned or
\* raised; and the step that leaves a subject is the step that marks its end time.
C29_EndTimeMarked ==
    /\ [](NodeEntered =>
            \A i \in 1..(idx - 1) :
                get_analysis_start_time(analysis_info_out, wf_list[i]) /= NoTime =>
                    /\ get_analysis_end_time(analysis_info_out, wf_list[i]) /= NoTime
                    /\ get_analysis_end_time(analysis_info_out, wf_list[i])
                          >= get_analysis_start_time(analysis_info_out, wf_list[i]))
    /\ [][(pc = "loop" /\ idx' = idx + 1) =>
             get_analysis_end_time(analysis_info_out', wf_list[idx]) = now]_vars

\* The node function raised for the first of two subjects; its start and end times
\* are marked and the node is at the second subject.
C29_Witness ==
    /\ pc = "loop"
    /\ idx = 2
    /\ Len(wf_list) = 2
    /\ fate[wf_list[1]] = "raised"
    /\ get_analysis_start_time(analysis_info_out, wf_list[1]) /= NoTime
    /\ get_analysis_end_time(analysis_info_out, wf_list[1]) /= NoTime

\* What the manifest holds as the outcome of a node (its timing apart), and the
\* exception Runner.run caught in an execution that ended as how.
manifest_outcome(config, n) ==
    [success |-> config.function[n].success, message |-> config.function[n].message,
     outputPaths |-> config.function[n].outputPaths, subjects |-> config.function[n].subjects]

caught(how) ==
    CASE how = "input_error" -> InputInfoFailure
      [] how = "node_failed" -> AllProcessingsFailed
      [] OTHER -> RecordingFailure

\* A step of Runner.run in an execution that has not returned normally.
failing_step(endings) == pc \in {"submitted", "loop"} /\ outcome' \in endings \cup {"none"}

neither_updated ==
    /\ manifest_outcome(expt_config', node_id) = manifest_outcome(expt_config, node_id)
    /\ node_analysis_of(workflow_info') = node_analysis_of(workflow_info)

\* C30 as stated: every execution of Runner.run ends with the node's pickle written;
\* when something raised (reading the inputs, the node function, node-failed, or the
\* recording of the outcome) the pickle holds the last lines of the failure trace and
\* no step of the execution has changed the node's outcome in the manifest or the
\* resume index.
C30_AsStated ==
    [][/\ (pc /= "done" /\ pc' = "done") =>
             IF outcome' = "returned" THEN pickle'.kind = "dict"
             ELSE pickle' = [kind |-> "error", info |-> caught(outcome')]
       /\ failing_step({"input_error", "node_failed", "record_failed"}) => neither_updated]_vars

\* C30 amended: as stated when reading the inputs or the node function (node-failed
\* included) raised; when a statement after update_experiment_file raised, the manifest
\* holds the outcome of this execution, and when it was a statement after
\* update_workflow_info_file, so does the resume index; otherwise they are unchanged.
C30_FailureWritten ==
    [][/\ (pc /= "done" /\ pc' = "done") =>
             IF outcome' = "returned" THEN pickle'.kind = "dict"
             ELSE pickle' = [kind |-> "error", info |-> caught(outcome')]
       /\ failing_step({"input_error", "node_failed"}) => neither_updated
       /\ (pc = "loop" /\ outcome' = "record_failed") =>
             \/ neither_updated
             \/ /\ expt_config' = update_experiment_file(expt_config, node_id, analysis_info_out)
                /\ \/ workflow_info' = workflow_info
                   \/ workflow_info' = update_workflow_info_file(workflow_info, node_id,
                                                                 analysis_info_out)]_vars

\* The segment1 node has failed in its second execution; the pickle is the failure and
\* the resume index still holds the success recorded by the first execution.
C30_Witness ==
    /\ pc = "done"
    /\ outcome = "node_failed"
    /\ run = 2
    /\ wf_list /= <<>>
    /\ pickle = [kind |-> "error", info |-> AllProcessingsFailed]
    /\ node_id \in DOMAIN node_analysis_of(workflow_info)
    /\ \A p \in Range(wf_list) :
          /\ p \in DOMAIN node_analysis_of(workflow_info)[node_id]
          /\ node_analysis_of(workflow_info)[node_id][p].success = "success"

\* The per-file statuses the manifest records for a subject at a node.
recorded_statuses(config, n, s) == Range(config.function[n].subjects[s].success)
\* The nodes of the manifest that record a subject.
nodes_recording(config, s) ==
    {n \in DOMAIN config.function : s \in DOMAIN config.function[n].subjects}

\* C31: in the experiment info made from the manifest, the result of a subject at a node
\* is 'success' if and only if every per-file status the manifest records for the
\* subject at the node is 'success', and 'error' otherwise; every subject name recorded
\* by some node has exactly one result entry, and the entry holds the subject's result
\* for exactly the nodes that record the subject.
C31_SubjectResults ==
    expt_config.exists =>
        LET results == get_experiment_info(expt_config).results
        IN /\ \A k \in 1..Len(results) : \A n \in DOMAIN results[k].function :
                 /\ results[k].function[n].success \in {"success", "error"}
                 /\ results[k].function[n].success = "success" <=>
                       recorded_statuses(expt_config, n, results[k].name) \subseteq {"success"}
           /\ \A j, k \in 1..Len(results) : results[j].name = results[k].name => j = k
           /\ \A k \in 1..Len(results) :
                 DOMAIN results[k].function = nodes_recording(expt_config, results[k].name)
           /\ \A n \in DOMAIN expt_config.function :
                 \A s \in DOMAIN expt_config.function[n].subjects :
                    \E k \in 1..Len(results) : results[k].name = s

\* Subject 01 has two images; alignment processed one and failed for the other, segment1
\* processed both: one entry for 01, 'error' at alignment and 'success' at segment1.
C31_Witness ==
    /\ expt_config.exists
    /\ LET results == get_experiment_info(expt_config).results
       IN /\ Len(results) = 1
          /\ results[1].name = "01"
          /\ DOMAIN results[1].function = {ALIGNMENT, SEGMENT1}
          /\ results[1].function[ALIGNMENT].success = "error"
          /\ results[1].function[SEGMENT1].success = "success"
          /\ recorded_statuses(expt_config, ALIGNMENT, "01") = {PROCESSED, WAIT}

\* C32: in an execution of a node with skip enabled that follows a recorded execution of
\* the node on the same images with the same parameters, every recorded output file
\* being on disk when the node function is entered, each subject that was SKIPPED in the
\* execution before is SKIPPED again and the node function is not invoked for it.
C32_SkipStable ==
    (NodeEntered /\ skip_analyzed /\ missing_at_start = {}) =>
        \A p \in DOMAIN fate :
            p \in skipped_before => (fate[p] = "skipped" /\ p \notin invoked)

\* Whether a message holds a failure trace.
holds_failure_trace(message) == message /= <<>> /\ Head(message) = "Traceback"

\* C33: in every ledger a node returns (the node's result pickle), no record is WAITING
\* or PROCESSING: each declared subject is PROCESSED, SKIPPED, ERROR or PREVIOUS_ERROR,
\* and a record whose message holds a failure trace is ERROR or PREVIOUS_ERROR.
C33_NoRecordLeftWaiting ==
    pickle.kind = "dict" =>
        LET info == pickle.analysis_info_out
        IN \A p \in Range(info.wf_input_file_path_list) :
              /\ get_analysis_status_of(info, p) \in {PROCESSED, SKIPPED, ERROR, PREVIOUS_ERROR}
              /\ holds_failure_trace(get_message(info, p)) =>
                    get_analysis_status_of(info, p) \in {ERROR, PREVIOUS_ERROR}

\* C34: in every state of the node's ledger, a record has an end time only if it has a
\* start time, and the record of a subject for which no computation was attempted
\* (skipped, upstream failure, input missing) has neither.
C34_TimestampsConsistent ==
    NodeEntered =>
        \A p \in Range(wf_list) :
            /\ get_analysis_end_time(analysis_info_out, p) /= NoTime =>
                  get_analysis_start_time(analysis_info_out, p) /= NoTime
            /\ (p \in DOMAIN fate /\ fate[p] \in {"skipped", "previous_error", "input_missing"}) =>
                  /\ get_analysis_start_time(analysis_info_out, p) = NoTime
                  /\ get_analysis_end_time(analysis_info_out, p) = NoTime

\* C35: when the node has returned, the subdirectories of the node's output directory
\* are exactly the directories confirmed in this execution (those of its SKIPPED and
\* PROCESSED subjects); none is left for a subject whose processing failed, whether or
\* not the directory was there before the node started.
C35_OnlyConfirmedLeft ==
    (pc = "done" /\ outcome = "returned") =>
        /\ get_subdir_path_list(node_dir_path) = confirmed
        /\ confirmed = {output_dir_path_of(p) :
                          p \in {q \in DOMAIN fate : fate[q] \in {"skipped", "processed"}}}

\* C36: recording a node's outcome in the manifest keeps the started_at that
\* set_func_start_timestamp wrote for the node, and the status recorded for the node is
\* the node's own result, not a copy of the status of the run.
C36_NodeTimingKept ==
    [][(pc = "loop" /\ outcome' = "returned") =>
          /\ expt_config'.function[node_id].started_at = expt_config.function[node_id].started_at
          /\ expt_config'.function[node_id].success = get_analysis_status_message(analysis_info_out)]_vars

\* What the manifest records as the outcome of a node.
recorded_outcome(config, n) ==
    [success |-> config.function[n].success, message |-> config.function[n].message,
     outputPaths |-> config.function[n].outputPaths, subjects |-> config.function[n].subjects]

\* C37: opening a run whose manifest exists keeps the project id, the run id and the
\* name of the stored manifest, and keeps the outcome recorded for every node (status,
\* message, output paths, per-subject entries).
C37_ReopenKeepsOutcomes ==
    [][(run' /= run /\ expt_config.exists) =>
          /\ expt_config'.project_id = expt_config.project_id
          /\ expt_config'.unique_id = expt_config.unique_id
          /\ expt_config'.name = expt_config.name
          /\ \A n \in DOMAIN expt_config.function :
                /\ n \in DOMAIN expt_config'.function
                /\ recorded_outcome(expt_config', n) = recorded_outcome(expt_config, n)]_vars

\* The subjects of the execution all of whose files were SKIPPED.
skipped_subjects ==
    {get_subject_name(p) : p \in {q \in DOMAIN fate : fate[q] = "skipped"}}
        \ {get_subject_name(p) : p \in {q \in DOMAIN fate : fate[q] /= "skipped"}}

\* The result entries of the experiment info for a subject name.
result_entries(config, s) ==
    LET results == get_experiment_info(config).results
    IN {results[k] : k \in {j \in 1..Len(results) : results[j].name = s}}

\* C38: when the node has returned, a subject whose files were SKIPPED at the node is
\* reported as 'success' for the node: every per-file status the manifest records for
\* it is 'success', and so is its result in the experiment info made from the manifest.
C38_SkippedReportedSuccess ==
    (pc = "done" /\ outcome = "returned") =>
        \A s \in skipped_subjects :
            /\ recorded_statuses(expt_config, node_id, s) = {"success"}
            /\ \A entry \in result_entries(expt_config, s) :
                  entry.function[node_id].success = "success"

\* The files on disk in the output directory of a workflow input file.
files_in_output_dir_of(p, file_set) ==
    {f \in file_set : Len(f) = Len(output_dir_path_of(p)) + 1
                      /\ SubSeq(f, 1, Len(output_dir_path_of(p))) = output_dir_path_of(p)}

\* C39: within one node execution, the evaluation of a subject (removal of its stale
\* output and recomputation included) leaves the output directory confirmed for every
\* other declared subject path and the files in it as they are, also when the two
\* input files have the same file name in different folders.
C39_OtherSubjectsOutputKept ==
    [][(InLoop /\ idx' = idx + 1) =>
          \A q \in DOMAIN fate \ {wf_input_path} :
              output_dir_path_of(q) \in confirmed =>
                  /\ output_dir_path_of(q) \in dirs'
                  /\ files_in_output_dir_of(q, files) \subseteq files']_vars
====
